---- MODULE Spec2Model ----
(***************************************************************************)
(* Station save/load of OpenTTD (station_sl.cpp) on top of the declarative *)
(* SaveLoad descriptors of saveload_data.h: version windows, descriptor    *)
(* tables, the chunk handlers of stations, road stops and docks, and the   *)
(* two-pass load (raw load, then pointer fixup).                           *)
(***************************************************************************)
EXTENDS Integers, Sequences, FiniteSets, TLC

VARIABLES
    h_args,     \* version probe: the macro arguments a descriptor is built from
    h_sld,      \* version probe: the SaveLoad descriptor under test
    h_stv,      \* version probe: the SavegameTypeVersion of the file
    h_valid,    \* version probe: result of SaveLoad::is_valid, "unknown" before the call
    h_pc,       \* version probe: "start" before the call, "done" after
    c_case,     \* probe of one operation: its inputs
    c_out,      \* probe of one operation: what it gave
    c_pc,       \* probe of one operation: "start", then the steps done
    pools,      \* the object pools in memory: index -> object, or NoObj
    saved,      \* the pools as they were when the file was written
    savegame,     \* the savegame: its type and version and its chunks
    phase,      \* state of the game or of the load operation
    pos,        \* callbacks of the current pass that have run
    globals,     \* the staging globals of station_sl.cpp
    err,        \* the error a failed load reports
    log         \* the callbacks run since the file was opened, in order

c_vars == <<c_case, c_out, c_pc>>

h_vars == <<h_args, h_sld, h_stv, h_valid, h_pc, c_case, c_out, c_pc>>

l_vars == <<pools, saved, savegame, phase, pos, globals, err, log>>

vars == <<h_args, h_sld, h_stv, h_valid, h_pc, c_case, c_out, c_pc,
          pools, saved, savegame, phase, pos, globals, err, log>>

\* The probe of one operation at rest.
CodecIdle == c_case = 0 /\ c_out = 0 /\ c_pc = "idle"

\* The version probe at rest.
ValidIdle ==
    /\ h_args = 0 /\ h_sld = 0 /\ h_stv = 0 /\ h_valid = "unknown" /\ h_pc = "idle"

\* Both probes at rest.
ProbeIdle == ValidIdle /\ CodecIdle

(***************************************************************************)
(* Bounds of the model.                                                    *)
(***************************************************************************)

\* File versions 0..MaxFileVersion (and SL_MAX_VERSION) are probed.
MaxFileVersion == 21

(***************************************************************************)
(* saveload_data.h: savegame types and versions.                           *)
(***************************************************************************)

\* enum SavegameType, without SGT_INVALID (a broken savegame is never loaded).
SavegameTypes == {"SGT_TTO", "SGT_TTD", "SGT_TTDP1", "SGT_TTDP2", "SGT_OTTD", "SGT_FTTD"}

\* The predecessor formats: every recognized type but SGT_OTTD and SGT_FTTD.
PredecessorTypes == SavegameTypes \ {"SGT_OTTD", "SGT_FTTD"}

\* Highest possible savegame version (UINT16_MAX).
SL_MAX_VERSION == 65535

\* An empty macro argument.
EMPTY == -1

\* Substitute first parameter if non-empty, else second.
SLE_DEFAULT_IF_EMPTY(value, default) == IF value = EMPTY THEN default ELSE value

\* SaveLoad::VersionRange (uint16 from, uint16 to)
VersionRange(from, to) == [from |-> from, to |-> to]

\* The version part of a SaveLoad built by SLE_ANY_2: version range and
\* legacy version range; an empty from, to or lto is SL_MAX_VERSION.
SLE_ANY_2(from, to, lfrom, lto) ==
    [version |-> VersionRange(SLE_DEFAULT_IF_EMPTY(from, SL_MAX_VERSION),
                              SLE_DEFAULT_IF_EMPTY(to, SL_MAX_VERSION)),
     legacy  |-> VersionRange(lfrom, SLE_DEFAULT_IF_EMPTY(lto, SL_MAX_VERSION))]

\* A plausible slip: a field declared with a version range only is given
\* the default legacy range (always present) instead of the empty one.
SLE_ANY_1_legacy_default(from, to) == SLE_ANY_2(from, to, 0, EMPTY)

\* SLE_ANY_1: version range only; the legacy range (SL_MAX_VERSION, 0) is empty.
SLE_ANY_1(from, to) == SLE_ANY_2(from, to, SL_MAX_VERSION, 0)

\* SLE_ANY_0: no version range: SLE_ANY_2 (0, , 0, ).
SLE_ANY_0 == SLE_ANY_2(0, EMPTY, 0, EMPTY)

\* SLE_ANY_: dispatch on the number of version arguments given
\* (0: none, 1: from and to, 2: from, to, lfrom and lto).
SLE_ANY_(n, from, to, lfrom, lto) ==
    CASE n = 2 -> SLE_ANY_2(from, to, lfrom, lto)
      [] n = 1 -> SLE_ANY_1(from, to)
      [] OTHER -> SLE_ANY_0

\* Faulty variants of SaveLoad::is_valid.
\* The upper bound of the current-scheme window taken as exclusive.
is_valid_to_exclusive(sld, stv) ==
    LET inrange ==
          CASE stv.type = "SGT_OTTD" ->
                 ~(stv.version < sld.legacy.from \/ stv.version > sld.legacy.to)
            [] stv.type = "SGT_FTTD" ->
                 ~(stv.version < sld.version.from \/ stv.version >= sld.version.to)
            [] OTHER -> ~(0 < sld.legacy.from)
    IN  inrange /\ "SLF_NOT_IN_SAVE" \notin sld.flags

\* A legacy file checked against the current-scheme window.
is_valid_one_window(sld, stv) ==
    LET inrange ==
          CASE stv.type \in {"SGT_OTTD", "SGT_FTTD"} ->
                 ~(stv.version < sld.version.from \/ stv.version > sld.version.to)
            [] OTHER -> ~(0 < sld.legacy.from)
    IN  inrange /\ "SLF_NOT_IN_SAVE" \notin sld.flags

\* A predecessor format checked like a legacy file of its version number.
is_valid_no_default(sld, stv) ==
    LET inrange ==
          CASE stv.type = "SGT_FTTD" ->
                 ~(stv.version < sld.version.from \/ stv.version > sld.version.to)
            [] OTHER ->
                 ~(stv.version < sld.legacy.from \/ stv.version > sld.legacy.to)
    IN  inrange /\ "SLF_NOT_IN_SAVE" \notin sld.flags

\* A check that lets every field through, whatever the file version.
is_valid_always(sld, stv) == TRUE

\* SaveLoad::is_valid: check if this object is valid in a certain savegame version.
is_valid(sld, stv) ==
    LET inrange ==
          CASE stv.type = "SGT_OTTD" ->
                 ~(stv.version < sld.legacy.from \/ stv.version > sld.legacy.to)
            [] stv.type = "SGT_FTTD" ->
                 ~(stv.version < sld.version.from \/ stv.version > sld.version.to)
            [] OTHER -> ~(0 < sld.legacy.from)
    IN  inrange /\ "SLF_NOT_IN_SAVE" \notin sld.flags

(***************************************************************************)
(* saveload_data.h: VarTypes and the SaveLoad descriptor constructors.     *)
(***************************************************************************)

\* A conversion: SLE_FILE_x | SLE_VAR_y.
Conv(file, mem) == [file |-> file, mem |-> mem]

SLE_BOOL     == Conv("I8", "BL")
SLE_INT8     == Conv("I8", "I8")
SLE_UINT8    == Conv("U8", "U8")
SLE_INT16    == Conv("I16", "I16")
SLE_UINT16   == Conv("U16", "U16")
SLE_INT32    == Conv("I32", "I32")
SLE_UINT32   == Conv("U32", "U32")
SLE_INT64    == Conv("I64", "I64")
SLE_UINT64   == Conv("U64", "U64")
SLE_STRINGID == Conv("STRINGID", "U16")
SLE_UINT     == SLE_UINT32

\* Size in bytes of a type as it appears in a saved game (_conv_file_size).
SlCalcConvFileLen(conv) ==
    CASE conv.file \in {"I8", "U8"} -> 1
      [] conv.file \in {"I16", "U16", "STRINGID"} -> 2
      [] conv.file \in {"I32", "U32"} -> 4
      [] OTHER -> 8

\* Size in bytes of a type as it appears in memory (DEFINE_VALIDATE_CONV).
SlCalcConvMemLen(conv) ==
    CASE conv.mem \in {"BL", "I8", "U8"} -> 1
      [] conv.mem \in {"I16", "U16"} -> 2
      [] conv.mem \in {"I32", "U32"} -> 4
      [] OTHER -> 8

\* Whether the in-memory type is signed.
MemSigned(conv) == conv.mem \in {"I8", "I16", "I32", "I64"}

\* The version windows of a descriptor: none, (from, to), (from, to, lfrom, lto).
V0 == SLE_ANY_(0, EMPTY, EMPTY, EMPTY, EMPTY)
V1(from, to) == SLE_ANY_(1, from, to, EMPTY, EMPTY)
V2(from, to, lfrom, lto) == SLE_ANY_(2, from, to, lfrom, lto)

\* struct SaveLoad.
SaveLoad(type, conv, flags, length, w, address) ==
    [type |-> type, conv |-> conv, flags |-> flags, length |-> length,
     version |-> w.version, legacy |-> w.legacy, address |-> address]

SLE_VAR(variable, conv, w)  == SaveLoad("SL_VAR", conv, {}, 0, w, variable)
SLEG_VAR(variable, conv, w) == SaveLoad("SL_VAR", conv, {"SLF_GLOBAL"}, 0, w, variable)
SLE_REF(variable, reftype, w) == SaveLoad("SL_REF", reftype, {}, 0, w, variable)
SLEG_ARR(variable, conv, length, w) ==
    SaveLoad("SL_ARR", conv, {"SLF_GLOBAL"}, length, w, variable)
SLE_STR(variable, conv, w)  == SaveLoad("SL_STR", conv, {}, 0, w, variable)
SLE_LST(variable, reftype, w)  == SaveLoad("SL_LST", reftype, {}, 0, w, variable)
SLEG_LST(variable, reftype, w) == SaveLoad("SL_LST", reftype, {"SLF_GLOBAL"}, 0, w, variable)
SLE_NULL(length, w) == SaveLoad("SL_NULL", 0, {"SLF_NOT_IN_CONFIG"}, length, w, "")
SLE_WRITEBYTE(variable, value) == SaveLoad("SL_WRITEBYTE", value, {}, 0, V0, variable)
SLE_INCLUDE(include) == SaveLoad("SL_INCLUDE", 0, {}, 0, V0, include)
SLE_END == SaveLoad("SL_END", 0, {}, 0, V0, "")

(***************************************************************************)
(* The descriptor-table interpreter: byte streams, value conversion,       *)
(* Length, Write, Read and the pointer fixup of one object.                *)
(***************************************************************************)

\* The n bytes of v, most significant first (two's complement).
RECURSIVE ToBytes(_, _)
ToBytes(v, n) == IF n = 0 THEN <<>> ELSE ToBytes(v \div 256, n - 1) \o <<v % 256>>

\* The value of a byte string, sign-extended if signed, else zero-extended.
RECURSIVE FromBytes(_, _)
FromBytes(bs, signed) ==
    IF Len(bs) = 1
    THEN IF signed /\ bs[1] >= 128 THEN bs[1] - 256 ELSE bs[1]
    ELSE FromBytes(SubSeq(bs, 1, Len(bs) - 1), signed) * 256 + bs[Len(bs)]

\* ReadValue: the number held by a variable of the conversion's memory type.
ReadValue(val, conv) == IF conv.mem = "BL" THEN (IF val THEN 1 ELSE 0) ELSE val

\* The number stored as it is, whatever the width of the memory type.
WriteValue_untruncated(conv, x) == IF conv.mem = "BL" THEN x # 0 ELSE x

\* WriteValue: the number as a variable of the conversion's memory type
\* holds it: narrowing truncates (the values of the model fit 32 bits).
WriteValue(conv, x) ==
    CASE conv.mem = "BL"  -> x # 0
      [] conv.mem = "U8"  -> x % 256
      [] conv.mem = "I8"  -> (((x % 256) + 128) % 256) - 128
      [] conv.mem = "U16" -> x % 65536
      [] conv.mem = "I16" -> (((x % 65536) + 32768) % 65536) - 32768
      [] OTHER -> x

\* The bytes of one scalar in the file.
SlWriteConv(val, conv) == ToBytes(ReadValue(val, conv), SlCalcConvFileLen(conv))

\* The scalar read with a file value of one or two bytes always zero-extended.
SlReadConv_zero_extended(bs, conv) ==
    LET x == IF Len(bs) = 1 THEN bs[1]
             ELSE IF Len(bs) = 2 THEN bs[1] * 256 + bs[2]
             ELSE (((IF bs[1] >= 128 THEN bs[1] - 256 ELSE bs[1]) * 256 + bs[2]) * 256
                      + bs[3]) * 256 + bs[4]
    IN  CASE conv.mem = "BL"  -> x # 0
          [] conv.mem = "U8"  -> x % 256
          [] conv.mem = "I8"  -> (((x % 256) + 128) % 256) - 128
          [] conv.mem = "U16" -> x % 65536
          [] conv.mem = "I16" -> (((x % 65536) + 32768) % 65536) - 32768
          [] OTHER -> x

\* The scalar read from its bytes in the file.
SlReadConv(bs, conv) == WriteValue(conv, FromBytes(bs, MemSigned(conv)))

\* References in memory: no object, a live handle, or a raw stored ID.
NullPtr == [k |-> "null"]
Ptr(pool, idx) == [k |-> "ptr", pool |-> pool, idx |-> idx]
RawID(id) == [k |-> "raw", id |-> id]

\* The stored ID that stands for "no object" (all bits set).
INVALID_ID == -1

\* On-disk width of a reference.
SlRefLen == 4

\* An unused pool slot.
NoObj == [k |-> "none"]

\* The pool a reference kind names.
PoolOf(reftype) ==
    CASE reftype = "REF_STATION" -> "stations"
      [] reftype = "REF_TOWN" -> "towns"
      [] reftype = "REF_VEHICLE" -> "vehicles"
      [] reftype = "REF_ROADSTOPS" -> "roadstops"
      [] reftype = "REF_DOCKS" -> "docks"
      [] reftype = "REF_CARGO_PACKET" -> "cargopackets"
      [] reftype = "REF_STORAGE" -> "storages"

\* Pool::IsValidID
IsValidID(pool, id) == id \in DOMAIN pool /\ pool[id] # NoObj

\* The ID written for a reference.
ReferenceToInt(ref) == IF ref.k = "ptr" THEN ref.idx ELSE INVALID_ID

\* The handle a stored ID resolves to ("bad": no such object).
IntToReference(ps, id, reftype) ==
    IF id = INVALID_ID THEN NullPtr
    ELSE IF IsValidID(ps[PoolOf(reftype)], id) THEN Ptr(PoolOf(reftype), id)
    ELSE [k |-> "bad"]

\* get_variable_address, read and written.
GetVar(d, obj, glob) ==
    IF "SLF_GLOBAL" \in d.flags THEN glob[d.address] ELSE obj[d.address]

SetVar(d, st, val) ==
    IF "SLF_GLOBAL" \in d.flags
    THEN [st EXCEPT !.glob = [@ EXCEPT ![d.address] = val]]
    ELSE [st EXCEPT !.obj  = [@ EXCEPT ![d.address] = val]]

\* Concatenation of the byte strings f[1], ..., f[n].
RECURSIVE Concat(_, _)
Concat(f, n) == IF n = 0 THEN <<>> ELSE Concat(f, n - 1) \o f[n]

\* The bytes one valid field writes.
SlWriteField(d, obj, glob) ==
    LET v == GetVar(d, obj, glob) IN
    CASE d.type = "SL_VAR" -> SlWriteConv(v, d.conv)
      [] d.type = "SL_REF" -> ToBytes(ReferenceToInt(v), SlRefLen)
      [] d.type = "SL_ARR" ->
           Concat([i \in 1..d.length |-> SlWriteConv(v[i], d.conv)], d.length)
      [] d.type = "SL_STR" -> <<Len(v)>> \o v
      [] d.type = "SL_LST" ->
           Concat([i \in 1..Len(v) |-> ToBytes(ReferenceToInt(v[i]), SlRefLen)], Len(v))
           \o ToBytes(INVALID_ID, SlRefLen)
      [] d.type = "SL_NULL" -> [i \in 1..d.length |-> 0]
      [] d.type = "SL_WRITEBYTE" -> <<d.conv>>

\* The on-disk length of one valid field.
SlCalcFieldLength(d, obj, glob) ==
    CASE d.type = "SL_VAR" -> SlCalcConvFileLen(d.conv)
      [] d.type = "SL_REF" -> SlRefLen
      [] d.type = "SL_ARR" -> SlCalcConvFileLen(d.conv) * d.length
      [] d.type = "SL_STR" -> 1 + Len(GetVar(d, obj, glob))
      [] d.type = "SL_LST" -> SlRefLen * (Len(GetVar(d, obj, glob)) + 1)
      [] d.type = "SL_NULL" -> d.length
      [] d.type = "SL_WRITEBYTE" -> 1

\* The last descriptor of a table before its SLE_END.
LastField(sld) == Len(sld) - 1

\* Length: the bytes of the valid fields sld[lo..hi] (stv: version written).
RECURSIVE SlCalcLength(_, _, _, _, _, _)
SlCalcLength(obj, glob, sld, lo, hi, stv) ==
    IF lo > hi THEN 0
    ELSE IF lo = hi
    THEN LET d == sld[lo] IN
         IF d.type = "SL_INCLUDE"
         THEN SlCalcLength(obj, glob, d.address, 1, LastField(d.address), stv)
         ELSE IF is_valid(d, stv) THEN SlCalcFieldLength(d, obj, glob) ELSE 0
    ELSE SlCalcLength(obj, glob, sld, lo, (lo + hi) \div 2, stv)
         + SlCalcLength(obj, glob, sld, (lo + hi) \div 2 + 1, hi, stv)

\* Write: the bytes of the valid fields sld[lo..hi], in declaration order.
RECURSIVE SlWrite(_, _, _, _, _, _)
SlWrite(obj, glob, sld, lo, hi, stv) ==
    IF lo > hi THEN <<>>
    ELSE IF lo = hi
    THEN LET d == sld[lo] IN
         IF d.type = "SL_INCLUDE"
         THEN SlWrite(obj, glob, d.address, 1, LastField(d.address), stv)
         ELSE IF is_valid(d, stv) THEN SlWriteField(d, obj, glob) ELSE <<>>
    ELSE SlWrite(obj, glob, sld, lo, (lo + hi) \div 2, stv)
         \o SlWrite(obj, glob, sld, (lo + hi) \div 2 + 1, hi, stv)

\* The rest of a byte string after its first n bytes.
Drop(bs, n) == SubSeq(bs, n + 1, Len(bs))

\* The raw IDs of a reference list: up to the invalid-ID terminator.
\* Result: the list read, the bytes left, and whether the bytes sufficed.
RECURSIVE SlReadList(_, _)
SlReadList(buf, acc) ==
    IF Len(buf) < SlRefLen THEN [list |-> acc, buf |-> buf, ok |-> FALSE]
    ELSE LET id == FromBytes(SubSeq(buf, 1, SlRefLen), TRUE) IN
         IF id = INVALID_ID
         THEN [list |-> acc, buf |-> Drop(buf, SlRefLen), ok |-> TRUE]
         ELSE SlReadList(Drop(buf, SlRefLen), Append(acc, RawID(id)))

\* Read of one valid field. st: [buf, obj, glob, ok].
SlReadField(d, st) ==
    LET need == CASE d.type = "SL_VAR" -> SlCalcConvFileLen(d.conv)
                  [] d.type = "SL_REF" -> SlRefLen
                  [] d.type = "SL_ARR" -> SlCalcConvFileLen(d.conv) * d.length
                  [] d.type = "SL_STR" ->
                       IF Len(st.buf) = 0 THEN 1 ELSE 1 + st.buf[1]
                  [] d.type = "SL_NULL" -> d.length
                  [] OTHER -> 0
        rest == [st EXCEPT !.buf = Drop(st.buf, need)]
        n    == SlCalcConvFileLen(d.conv)
    IN
    IF Len(st.buf) < need THEN [st EXCEPT !.ok = FALSE]
    ELSE CASE d.type = "SL_VAR" ->
                SetVar(d, rest, SlReadConv(SubSeq(st.buf, 1, need), d.conv))
           [] d.type = "SL_REF" ->
                SetVar(d, rest, RawID(FromBytes(SubSeq(st.buf, 1, need), TRUE)))
           [] d.type = "SL_ARR" ->
                SetVar(d, rest,
                       [i \in 1..d.length |->
                           SlReadConv(SubSeq(st.buf, (i - 1) * n + 1, i * n), d.conv)])
           [] d.type = "SL_STR" -> SetVar(d, rest, SubSeq(st.buf, 2, need))
           [] d.type = "SL_LST" ->
                LET r == SlReadList(st.buf, <<>>) IN
                IF r.ok THEN SetVar(d, [st EXCEPT !.buf = r.buf], r.list)
                ELSE [st EXCEPT !.ok = FALSE]
           [] d.type = "SL_NULL" -> rest
           [] d.type = "SL_WRITEBYTE" -> st

\* Read: the valid fields sld[lo..hi] from the stream, in declaration order.
RECURSIVE SlRead(_, _, _, _, _)
SlRead(st, sld, lo, hi, stv) ==
    IF lo > hi \/ ~st.ok THEN st
    ELSE IF lo = hi
    THEN LET d == sld[lo] IN
         IF d.type = "SL_INCLUDE" THEN SlRead(st, d.address, 1, LastField(d.address), stv)
         ELSE IF is_valid(d, stv) THEN SlReadField(d, st) ELSE st
    ELSE SlRead(SlRead(st, sld, lo, (lo + hi) \div 2, stv),
                sld, (lo + hi) \div 2 + 1, hi, stv)

\* LoadBuffer::ReadObject. rd: [buf, glob, ok]; the result adds obj.
ReadObject(rd, object, sld, stv) ==
    SlRead([buf |-> rd.buf, obj |-> object, glob |-> rd.glob, ok |-> rd.ok],
           sld, 1, LastField(sld), stv)

\* The reader a ReadObject leaves behind.
Reader(st) == [buf |-> st.buf, glob |-> st.glob, ok |-> st.ok]

\* SaveDumper::WriteObject: the bytes appended.
WriteObject(object, glob, sld, stv) ==
    SlWrite(object, glob, sld, 1, LastField(sld), stv)

\* SlCalcObjLength
SlCalcObjLength(object, glob, sld, stv) ==
    SlCalcLength(object, glob, sld, 1, LastField(sld), stv)

\* Fixup of one reference: a raw stored ID becomes a handle.
SlFixRef(ps, ref, reftype) ==
    IF ref.k = "raw" THEN IntToReference(ps, ref.id, reftype) ELSE ref

\* Fixup of one valid reference field. st: [obj, glob, ok].
SlPtrsField(ps, d, st) ==
    LET v == GetVar(d, st.obj, st.glob)
        r == SlFixRef(ps, v, d.conv)
        l == [j \in 1..Len(v) |-> SlFixRef(ps, v[j], d.conv)]
    IN  CASE d.type = "SL_REF" ->
               IF r.k = "bad" THEN [st EXCEPT !.ok = FALSE] ELSE SetVar(d, st, r)
          [] d.type = "SL_LST" ->
               IF \E j \in 1..Len(v) : l[j].k = "bad"
               THEN [st EXCEPT !.ok = FALSE] ELSE SetVar(d, st, l)
          [] OTHER -> st

\* The null argument of the fixup callbacks: no savegame version.
NoVersion == [type |-> "NULL", version |-> 0, minor_version |-> 0]

\* Without a version the references of the object are dropped.
SlNullField(d, st) ==
    CASE d.type = "SL_REF" -> SetVar(d, st, NullPtr)
      [] d.type = "SL_LST" -> SetVar(d, st, <<>>)
      [] OTHER -> st

\* Fixup of the valid reference fields sld[lo..hi].
RECURSIVE SlPtrs(_, _, _, _, _, _)
SlPtrs(ps, st, sld, lo, hi, stv) ==
    IF lo > hi \/ ~st.ok THEN st
    ELSE IF lo = hi
    THEN LET d == sld[lo] IN
         IF d.type = "SL_INCLUDE"
         THEN SlPtrs(ps, st, d.address, 1, LastField(d.address), stv)
         ELSE IF stv = NoVersion THEN SlNullField(d, st)
         ELSE IF is_valid(d, stv) THEN SlPtrsField(ps, d, st) ELSE st
    ELSE SlPtrs(ps, SlPtrs(ps, st, sld, lo, (lo + hi) \div 2, stv),
                sld, (lo + hi) \div 2 + 1, hi, stv)

\* SlObjectPtrs(object, sld, stv). Result: [obj, glob, ok].
SlObjectPtrs(ps, object, glob, sld, stv) ==
    SlPtrs(ps, [obj |-> object, glob |-> glob, ok |-> TRUE], sld, 1, LastField(sld), stv)

\* enum StationFacility (the bits the station chunk handlers use).
FACIL_NONE == 0
FACIL_AIRPORT == 8
FACIL_WAYPOINT == 128

(***************************************************************************)
(* station_sl.cpp: the descriptor tables.                                  *)
(***************************************************************************)

_roadstop_desc == <<
    SLE_VAR("xy", SLE_UINT32, V0),
    SLE_NULL(1, V2(EMPTY, EMPTY, 0, 44)),
    SLE_VAR("status", SLE_UINT8, V0),
    SLE_NULL(4, V2(EMPTY, EMPTY, 0, 8)),
    SLE_NULL(2, V2(EMPTY, EMPTY, 0, 44)),
    SLE_NULL(1, V2(EMPTY, EMPTY, 0, 25)),
    SLE_REF("next", "REF_ROADSTOPS", V0),
    SLE_NULL(2, V2(EMPTY, EMPTY, 0, 44)),
    SLE_NULL(4, V2(EMPTY, EMPTY, 0, 24)),
    SLE_NULL(1, V2(EMPTY, EMPTY, 25, 25)),
    SLE_END >>

_station_speclist_desc == <<
    SLE_VAR("grfid", SLE_UINT32, V2(0, EMPTY, 27, EMPTY)),
    SLE_VAR("localidx", SLE_UINT8, V2(0, EMPTY, 27, EMPTY)),
    SLE_END >>

_flow_desc == <<
    SLE_VAR("source", SLE_UINT16, V0),
    SLE_VAR("via", SLE_UINT16, V0),
    SLE_VAR("share", SLE_UINT32, V0),
    SLE_VAR("restricted", SLE_BOOL, V2(13, EMPTY, 187, EMPTY)),
    SLE_END >>

GetGoodsDesc == <<
    SLEG_VAR("_waiting_acceptance", SLE_UINT16, V2(EMPTY, EMPTY, 0, 67)),
    SLE_VAR("status", SLE_UINT8, V2(0, EMPTY, 68, EMPTY)),
    SLE_NULL(2, V2(EMPTY, EMPTY, 51, 67)),
    SLE_VAR("time_since_pickup", SLE_UINT8, V0),
    SLE_VAR("rating", SLE_UINT8, V0),
    SLEG_VAR("_cargo_source", Conv("U8", "U16"), V2(EMPTY, EMPTY, 0, 6)),
    SLEG_VAR("_cargo_source", SLE_UINT16, V2(EMPTY, EMPTY, 7, 67)),
    SLEG_VAR("_cargo_source_xy", SLE_UINT32, V2(EMPTY, EMPTY, 44, 67)),
    SLEG_VAR("_cargo_days", SLE_UINT8, V2(EMPTY, EMPTY, 0, 67)),
    SLE_VAR("last_speed", SLE_UINT8, V0),
    SLE_VAR("last_age", SLE_UINT8, V0),
    SLEG_VAR("_cargo_feeder_share", Conv("U32", "I64"), V2(EMPTY, EMPTY, 14, 64)),
    SLEG_VAR("_cargo_feeder_share", SLE_INT64, V2(EMPTY, EMPTY, 65, 67)),
    SLE_VAR("amount_fract", SLE_UINT8, V2(0, EMPTY, 150, EMPTY)),
    SLEG_LST("_packets", "REF_CARGO_PACKET", V2(EMPTY, EMPTY, 68, 182)),
    SLEG_VAR("_num_dests", SLE_UINT32, V2(0, EMPTY, 183, EMPTY)),
    SLE_VAR("cargo_reserved_count", SLE_UINT, V2(0, EMPTY, 181, EMPTY)),
    SLE_VAR("link_graph", SLE_UINT16, V2(0, EMPTY, 183, EMPTY)),
    SLE_VAR("node", SLE_UINT16, V2(0, EMPTY, 183, EMPTY)),
    SLEG_VAR("_num_flows", SLE_UINT32, V2(0, EMPTY, 183, EMPTY)),
    SLE_VAR("max_waiting_cargo", SLE_UINT32, V2(0, EMPTY, 183, EMPTY)),
    SLE_END >>

_cargo_list_desc == <<
    SLE_VAR("first", SLE_UINT16, V0),
    SLE_LST("second", "REF_CARGO_PACKET", V0),
    SLE_END >>

_base_station_desc == <<
    SLE_VAR("xy", SLE_UINT32, V0),
    SLE_REF("town", "REF_TOWN", V0),
    SLE_VAR("string_id", SLE_STRINGID, V0),
    SLE_STR("name", "SLS_ALLOW_CONTROL", V0),
    SLE_VAR("delete_ctr", SLE_UINT8, V0),
    SLE_VAR("owner", SLE_UINT8, V0),
    SLE_VAR("facilities", SLE_UINT8, V0),
    SLE_VAR("build_date", SLE_INT32, V0),
    SLE_VAR("random_bits", SLE_UINT16, V0),
    SLE_VAR("waiting_triggers", SLE_UINT8, V0),
    SLE_VAR("num_specs", SLE_UINT8, V0),
    SLE_END >>

\* Number of words of the old persistent storage of an airport.
OldStorageWords == 16

\* The reference kind of Dock::next as a slip would declare it.
_dock_desc_wrong_kind == <<
    SLE_VAR("xy", SLE_UINT32, V0),
    SLE_REF("next", "REF_ROADSTOPS", V0),
    SLE_END >>

_dock_desc == <<
    SLE_VAR("xy", SLE_UINT32, V0),
    SLE_REF("next", "REF_DOCKS", V0),
    SLE_END >>

_station_desc == <<
    SLE_WRITEBYTE("facilities", FACIL_NONE),
    SLE_INCLUDE(_base_station_desc),
    SLE_VAR("train_station_tile", SLE_UINT32, V0),
    SLE_VAR("train_station_w", Conv("U8", "U16"), V0),
    SLE_VAR("train_station_h", Conv("U8", "U16"), V0),
    SLE_REF("bus_stops", "REF_ROADSTOPS", V0),
    SLE_REF("truck_stops", "REF_ROADSTOPS", V0),
    SLE_NULL(4, V2(0, 14, 0, EMPTY)),
    SLE_REF("docks", "REF_DOCKS", V1(15, EMPTY)),
    SLE_VAR("airport_tile", SLE_UINT32, V0),
    SLE_VAR("airport_w", Conv("U8", "U16"), V2(0, EMPTY, 140, EMPTY)),
    SLE_VAR("airport_h", Conv("U8", "U16"), V2(0, EMPTY, 140, EMPTY)),
    SLE_VAR("airport_type", SLE_UINT8, V0),
    SLE_VAR("airport_layout", SLE_UINT8, V2(0, EMPTY, 145, EMPTY)),
    SLE_VAR("airport_flags", SLE_UINT64, V0),
    SLE_VAR("airport_rotation", SLE_UINT8, V2(0, EMPTY, 145, EMPTY)),
    SLEG_ARR("_old_st_persistent_storage", SLE_UINT32, OldStorageWords,
             V2(EMPTY, EMPTY, 145, 160)),
    SLE_REF("airport_psa", "REF_STORAGE", V2(0, EMPTY, 161, EMPTY)),
    SLE_VAR("indtype", SLE_UINT8, V0),
    SLE_VAR("time_since_load", SLE_UINT8, V0),
    SLE_VAR("time_since_unload", SLE_UINT8, V0),
    SLE_VAR("last_vehicle_type", SLE_UINT8, V0),
    SLE_VAR("had_vehicle_of_type", SLE_UINT8, V0),
    SLE_LST("loading_vehicles", "REF_VEHICLE", V0),
    SLE_VAR("always_accepted", SLE_UINT32, V2(0, EMPTY, 127, EMPTY)),
    SLE_END >>

\* The waypoints written with the constant byte of the stations.
_waypoint_desc_no_flag == <<
    SLE_WRITEBYTE("facilities", FACIL_NONE),
    SLE_INCLUDE(_base_station_desc),
    SLE_VAR("town_cn", SLE_UINT16, V0),
    SLE_VAR("train_station_tile", SLE_UINT32, V2(0, EMPTY, 124, EMPTY)),
    SLE_VAR("train_station_w", Conv("U8", "U16"), V2(0, EMPTY, 124, EMPTY)),
    SLE_VAR("train_station_h", Conv("U8", "U16"), V2(0, EMPTY, 124, EMPTY)),
    SLE_END >>

_waypoint_desc == <<
    SLE_WRITEBYTE("facilities", FACIL_WAYPOINT),
    SLE_INCLUDE(_base_station_desc),
    SLE_VAR("town_cn", SLE_UINT16, V0),
    SLE_VAR("train_station_tile", SLE_UINT32, V2(0, EMPTY, 124, EMPTY)),
    SLE_VAR("train_station_w", Conv("U8", "U16"), V2(0, EMPTY, 124, EMPTY)),
    SLE_VAR("train_station_h", Conv("U8", "U16"), V2(0, EMPTY, 124, EMPTY)),
    SLE_END >>

_old_station_desc == <<
    SLE_VAR("xy", Conv("U16", "U32"), V2(EMPTY, EMPTY, 0, 5)),
    SLE_VAR("xy", SLE_UINT32, V2(0, EMPTY, 6, EMPTY)),
    SLE_NULL(4, V2(EMPTY, EMPTY, 0, 5)),
    SLE_VAR("train_station_tile", Conv("U16", "U32"), V2(EMPTY, EMPTY, 0, 5)),
    SLE_VAR("train_station_tile", SLE_UINT32, V2(0, EMPTY, 6, EMPTY)),
    SLE_VAR("airport_tile", Conv("U16", "U32"), V2(EMPTY, EMPTY, 0, 5)),
    SLE_VAR("airport_tile", SLE_UINT32, V2(0, EMPTY, 6, EMPTY)),
    SLE_NULL(2, V2(EMPTY, EMPTY, 0, 5)),
    SLE_NULL(4, V2(0, EMPTY, 6, EMPTY)),
    SLE_REF("town", "REF_TOWN", V0),
    SLE_VAR("train_station_w", Conv("U8", "U16"), V0),
    SLE_VAR("train_station_h", Conv("U8", "U16"), V2(0, EMPTY, 2, EMPTY)),
    SLE_NULL(1, V2(EMPTY, EMPTY, 0, 3)),
    SLE_VAR("string_id", SLE_STRINGID, V0),
    SLE_STR("name", "SLS_ALLOW_CONTROL", V2(0, EMPTY, 84, EMPTY)),
    SLE_VAR("indtype", SLE_UINT8, V2(0, EMPTY, 103, EMPTY)),
    SLE_VAR("had_vehicle_of_type", Conv("U16", "U8"), V2(EMPTY, EMPTY, 0, 121)),
    SLE_VAR("had_vehicle_of_type", SLE_UINT8, V2(0, EMPTY, 122, EMPTY)),
    SLE_VAR("time_since_load", SLE_UINT8, V0),
    SLE_VAR("time_since_unload", SLE_UINT8, V0),
    SLE_VAR("delete_ctr", SLE_UINT8, V0),
    SLE_VAR("owner", SLE_UINT8, V0),
    SLE_VAR("facilities", SLE_UINT8, V0),
    SLE_VAR("airport_type", SLE_UINT8, V0),
    SLE_NULL(2, V2(EMPTY, EMPTY, 0, 5)),
    SLE_NULL(1, V2(EMPTY, EMPTY, 0, 4)),
    SLE_VAR("airport_flags", Conv("U16", "U64"), V2(EMPTY, EMPTY, 0, 2)),
    SLE_VAR("airport_flags", Conv("U32", "U64"), V2(EMPTY, EMPTY, 3, 45)),
    SLE_VAR("airport_flags", SLE_UINT64, V2(0, EMPTY, 46, EMPTY)),
    SLE_NULL(2, V2(EMPTY, EMPTY, 0, 25)),
    SLE_VAR("last_vehicle_type", SLE_UINT8, V2(0, EMPTY, 26, EMPTY)),
    SLE_NULL(2, V2(EMPTY, EMPTY, 3, 25)),
    SLE_VAR("build_date", Conv("U16", "I32"), V2(EMPTY, EMPTY, 3, 30)),
    SLE_VAR("build_date", SLE_INT32, V2(0, EMPTY, 31, EMPTY)),
    SLE_REF("bus_stops", "REF_ROADSTOPS", V2(0, EMPTY, 6, EMPTY)),
    SLE_REF("truck_stops", "REF_ROADSTOPS", V2(0, EMPTY, 6, EMPTY)),
    SLE_VAR("random_bits", SLE_UINT16, V2(0, EMPTY, 27, EMPTY)),
    SLE_VAR("waiting_triggers", SLE_UINT8, V2(0, EMPTY, 27, EMPTY)),
    SLE_VAR("num_specs", SLE_UINT8, V2(0, EMPTY, 27, EMPTY)),
    SLE_LST("loading_vehicles", "REF_VEHICLE", V2(0, EMPTY, 57, EMPTY)),
    SLE_NULL(32, V2(EMPTY, EMPTY, 2, EMPTY)),
    SLE_END >>

(***************************************************************************)
(* Savegame version tests.                                                 *)
(***************************************************************************)

\* The test with the savegame's own major version counted as older.
IsFullSavegameVersionBefore_inclusive(stv, version, major, minor) ==
    CASE stv.type = "SGT_OTTD" ->
           \/ stv.version <= major
           \/ (minor > 0 /\ stv.version = major /\ stv.minor_version < minor)
      [] stv.type = "SGT_FTTD" -> stv.version < version
      [] OTHER -> major > 0

\* Checks whether the savegame version is older than a given version.
IsFullSavegameVersionBefore(stv, version, major, minor) ==
    CASE stv.type = "SGT_OTTD" ->
           \/ stv.version < major
           \/ (minor > 0 /\ stv.version = major /\ stv.minor_version < minor)
      [] stv.type = "SGT_FTTD" -> stv.version < version
      [] OTHER -> major > 0

\* Checks whether the savegame version is legacy and older than a given version.
IsOTTDSavegameVersionBefore(stv, major, minor) ==
    IsFullSavegameVersionBefore(stv, 0, major, minor)

\* reader->IsOTTDVersionBefore(major), stv->is_ottd_before(major)
IsOTTDVersionBefore(stv, major) == IsOTTDSavegameVersionBefore(stv, major, 0)

(***************************************************************************)
(* Objects in memory: std::map as a key-sorted sequence of [key, val],     *)
(* flow statistics, goods entries, stations, waypoints, stops and docks.   *)
(***************************************************************************)

\* Number of cargo slots of a station (32 in the game).
NUM_CARGO == 2

\* StationID of "no station".
INVALID_STATION == 65535

MapHas(m, k) == \E i \in 1..Len(m) : m[i].key = k
MapIdx(m, k) == CHOOSE i \in 1..Len(m) : m[i].key = k
MapGet(m, k) == m[MapIdx(m, k)].val

\* m[k] = v: replaces the value of k, or inserts k at its place in key order.
MapPut(m, k, v) ==
    IF MapHas(m, k) THEN [m EXCEPT ![MapIdx(m, k)].val = v]
    ELSE LET n == Cardinality({i \in 1..Len(m) : m[i].key < k})
         IN  SubSeq(m, 1, n) \o <<[key |-> k, val |-> v]>> \o SubSeq(m, n + 1, Len(m))

\* std::map::insert: an existing key keeps its value.
MapInsert(m, k, v) == IF MapHas(m, k) THEN m ELSE MapPut(m, k, v)

\* FlowStat(st, flow, restricted)
FlowStat(via, share, restricted) ==
    [shares |-> <<[key |-> share, val |-> via]>>,
     unrestricted |-> IF restricted THEN 0 ELSE share]

\* FlowStat::AppendShare(st, flow, restricted)
AppendShare(fs, via, share, restricted) ==
    [shares |-> MapPut(fs.shares, fs.shares[Len(fs.shares)].key + share, via),
     unrestricted |-> IF restricted THEN fs.unrestricted ELSE fs.unrestricted + share]

\* GoodsEntry()
NewGoodsEntry ==
    [status |-> 0, time_since_pickup |-> 0, rating |-> 0, last_speed |-> 0,
     last_age |-> 0, amount_fract |-> 0, cargo_reserved_count |-> 0,
     link_graph |-> 0, node |-> 0, max_waiting_cargo |-> 0,
     flows |-> <<>>, cargo_packets |-> <<>>]

\* Station()
NewStation ==
    [kind |-> "Station", xy |-> 0, town |-> NullPtr, string_id |-> 0, name |-> <<>>,
     delete_ctr |-> 0, owner |-> 0, facilities |-> FACIL_NONE, build_date |-> 0,
     random_bits |-> 0, waiting_triggers |-> 0, num_specs |-> 0,
     train_station_tile |-> 0, train_station_w |-> 0, train_station_h |-> 0,
     bus_stops |-> NullPtr, truck_stops |-> NullPtr, docks |-> NullPtr,
     airport_tile |-> 0, airport_w |-> 0, airport_h |-> 0, airport_type |-> 0,
     airport_layout |-> 0, airport_flags |-> 0, airport_rotation |-> 0,
     airport_psa |-> NullPtr, indtype |-> 0, time_since_load |-> 0,
     time_since_unload |-> 0, last_vehicle_type |-> 0, had_vehicle_of_type |-> 0,
     loading_vehicles |-> <<>>, always_accepted |-> 0,
     goods |-> [i \in 1..NUM_CARGO |-> NewGoodsEntry], speclist |-> <<>>]

\* Waypoint()
NewWaypoint ==
    [kind |-> "Waypoint", xy |-> 0, town |-> NullPtr, string_id |-> 0, name |-> <<>>,
     delete_ctr |-> 0, owner |-> 0, facilities |-> FACIL_WAYPOINT, build_date |-> 0,
     random_bits |-> 0, waiting_triggers |-> 0, num_specs |-> 0, town_cn |-> 0,
     train_station_tile |-> 0, train_station_w |-> 0, train_station_h |-> 0,
     speclist |-> <<>>]

\* RoadStop(INVALID_TILE), Dock(INVALID_TILE)
INVALID_TILE == -1
NewRoadStop == [kind |-> "RoadStop", xy |-> INVALID_TILE, status |-> 0, next |-> NullPtr]
NewDock == [kind |-> "Dock", xy |-> INVALID_TILE, next |-> NullPtr]

\* PersistentStorage(0, 0, 0)
NewPersistentStorage ==
    [kind |-> "PersistentStorage", storage |-> [i \in 1..OldStorageWords |-> 0]]

\* StationSpecList, zeroed by xcalloct.
NewSpecList == [grfid |-> 0, localidx |-> 0]

\* FlowSaveLoad()
NewFlowSaveLoad == [source |-> 0, via |-> 0, share |-> 0, restricted |-> FALSE]

\* BaseStation::IsWaypoint
IsWaypoint(bst) == (bst.facilities \div FACIL_WAYPOINT) % 2 = 1

\* The staging globals of station_sl.cpp.
InitGlobals ==
    [_waiting_acceptance |-> 0, _num_flows |-> 0, _cargo_source |-> 0,
     _cargo_source_xy |-> 0, _cargo_days |-> 0, _cargo_feeder_share |-> 0,
     _packets |-> <<>>, _num_dests |-> 0,
     _old_st_persistent_storage |-> [i \in 1..OldStorageWords |-> 0]]

\* The live indices of a pool, in index order, as a sequence.
RECURSIVE LiveFrom(_, _)
LiveFrom(pool, i) ==
    IF i \notin DOMAIN pool THEN <<>>
    ELSE (IF pool[i] # NoObj THEN <<i>> ELSE <<>>) \o LiveFrom(pool, i + 1)
Live(pool) == LiveFrom(pool, 0)

\* Pool::CanAllocateItem
CanAllocateItem(pool) == \E i \in DOMAIN pool : pool[i] = NoObj

\* The index a new item gets: the first free one.
FirstFree(pool) == CHOOSE i \in DOMAIN pool :
    pool[i] = NoObj /\ \A j \in DOMAIN pool : pool[j] = NoObj => i <= j

(***************************************************************************)
(* station_sl.cpp: the save callbacks.  A CH_ARRAY chunk is the sequence   *)
(* of its elements by index; the element of an unused index is empty.      *)
(***************************************************************************)

\* The highest live index of a pool plus one.
ArraySize(pool) ==
    IF \A i \in DOMAIN pool : pool[i] = NoObj THEN 0
    ELSE 1 + CHOOSE i \in DOMAIN pool :
                 pool[i] # NoObj /\ \A j \in DOMAIN pool : pool[j] # NoObj => j <= i

\* The tuples with the absolute share boundary instead of the share's width.
FlowTuples_absolute(source, stat) ==
    [k \in 1..Len(stat.shares) |->
        [source |-> source,
         via |-> stat.shares[k].val,
         share |-> stat.shares[k].key,
         restricted |-> stat.shares[k].key > stat.unrestricted]]

\* The tuples whose first share is taken from its own boundary.
FlowTuples_first_zero(source, stat) ==
    [k \in 1..Len(stat.shares) |->
        [source |-> source,
         via |-> stat.shares[k].val,
         share |-> stat.shares[k].key - stat.shares[IF k = 1 THEN 1 ELSE k - 1].key,
         restricted |-> stat.shares[k].key > stat.unrestricted]]

\* Save_STNN, lines 596-609: the FlowSaveLoad tuples of one FlowStat.
FlowTuples(source, stat) ==
    [k \in 1..Len(stat.shares) |->
        [source |-> source,
         via |-> stat.shares[k].val,
         share |-> stat.shares[k].key - (IF k = 1 THEN 0 ELSE stat.shares[k - 1].key),
         restricted |-> stat.shares[k].key > stat.unrestricted]]

\* Save_STNN, lines 592-594: the number of shares of all flows.
RECURSIVE NumFlows(_, _)
NumFlows(flows, n) ==
    IF n = 0 THEN 0 ELSE NumFlows(flows, n - 1) + Len(flows[n].val.shares)

\* Save_STNN, lines 590-612: one goods entry. dp: the dumper temp with the
\* staging globals, [bytes, glob].
SaveGoods(dp, ge, stv) ==
    LET g == [dp.glob EXCEPT !._num_dests = Len(ge.cargo_packets),
                             !._num_flows = NumFlows(ge.flows, Len(ge.flows))]
        flowBytes(m) ==
            LET t == FlowTuples(ge.flows[m].key, ge.flows[m].val)
            IN  Concat([k \in 1..Len(t) |-> WriteObject(t[k], g, _flow_desc, stv)], Len(t))
        pairBytes(m) ==
            WriteObject([first |-> ge.cargo_packets[m].key,
                         second |-> ge.cargo_packets[m].val], g, _cargo_list_desc, stv)
    IN  [bytes |-> dp.bytes
                   \o WriteObject(ge, g, GetGoodsDesc, stv)
                   \o Concat([m \in 1..Len(ge.flows) |-> flowBytes(m)], Len(ge.flows))
                   \o Concat([m \in 1..Len(ge.cargo_packets) |-> pairBytes(m)],
                             Len(ge.cargo_packets)),
         glob |-> g]

\* Save_STNN, lines 589-613: the goods entries i.. of a station.
RECURSIVE SaveAllGoods(_, _, _, _)
SaveAllGoods(dp, st, i, stv) ==
    IF i > NUM_CARGO THEN dp
    ELSE SaveAllGoods(SaveGoods(dp, st.goods[i], stv), st, i + 1, stv)

\* Save_STNN, lines 616-618: the speclist of a base station.
SaveSpecList(dp, bst, stv) ==
    [dp EXCEPT !.bytes =
        @ \o Concat([i \in 1..bst.num_specs |->
                        WriteObject(bst.speclist[i], dp.glob,
                                    _station_speclist_desc, stv)], bst.num_specs)]

\* Save_STNN, lines 581-621: the element of one base station.
\* Result: [bytes, glob].
SaveBaseStation(bst, glob, stv) ==
    SaveSpecList(
        IF IsWaypoint(bst)
        THEN [bytes |-> WriteObject(bst, glob, _waypoint_desc, stv), glob |-> glob]
        ELSE SaveAllGoods([bytes |-> WriteObject(bst, glob, _station_desc, stv),
                           glob |-> glob], bst, 1, stv),
        bst, stv)

\* Save_STNN, lines 620-621: the element is dumped. acc: [elems, glob].
WriteElement(acc, dp) == [elems |-> Append(acc.elems, dp.bytes), glob |-> dp.glob]

\* Save_STNN: the elements of indices i.. Result: [elems, glob].
RECURSIVE SaveStations(_, _, _, _)
SaveStations(acc, pool, i, stv) ==
    IF i >= ArraySize(pool) THEN acc
    ELSE IF pool[i] = NoObj
         THEN SaveStations([acc EXCEPT !.elems = Append(@, <<>>)], pool, i + 1, stv)
         ELSE SaveStations(WriteElement(acc, SaveBaseStation(pool[i], acc.glob, stv)),
                           pool, i + 1, stv)

Save_STNN(ps, glob, stv) ==
    SaveStations([elems |-> <<>>, glob |-> glob], ps.stations, 0, stv)

\* Save_ROADSTOP: WriteElement(rs->index, rs, _roadstop_desc) for all road stops.
Save_ROADSTOP(ps, glob, stv) ==
    [i \in 1..ArraySize(ps.roadstops) |->
        IF ps.roadstops[i - 1] = NoObj THEN <<>>
        ELSE WriteObject(ps.roadstops[i - 1], glob, _roadstop_desc, stv)]

\* Save_DOCKS: WriteElement(d->index, d, _dock_desc) for all docks.
Save_DOCKS(ps, glob, stv) ==
    [i \in 1..ArraySize(ps.docks) |->
        IF ps.docks[i - 1] = NoObj THEN <<>>
        ELSE WriteObject(ps.docks[i - 1], glob, _dock_desc, stv)]

(***************************************************************************)
(* station_sl.cpp: the load callbacks.  A callback works on                *)
(* ld = [ps, glob, ok, index, aborted]: the pools, the staging globals,    *)
(* whether the file was readable so far, the element that was not, and     *)
(* whether an assertion of the callback failed.                            *)
(***************************************************************************)

Loader(ps, glob) ==
    [ps |-> ps, glob |-> glob, ok |-> TRUE, index |-> -1, aborted |-> FALSE]

\* The file is corrupt at the element of this index.
SlErrorCorrupt(ld, index) == [ld EXCEPT !.ok = FALSE, !.index = index]

\* new (index) T: the slot exists and is free.
CanPlace(pool, index) == index \in DOMAIN pool /\ pool[index] = NoObj

\* StationCargoPair()
NewStationCargoPair == [first |-> 0, second |-> <<>>]

\* No FlowStat yet (fs == NULL).
NoFlowStat == -1

\* _packets copied into the goods entry instead of exchanged with its list.
SwapPackets_copy(ge, glob) ==
    IF glob._packets = <<>> THEN [ge |-> ge, glob |-> glob, aborted |-> FALSE]
    ELSE [ge |-> [ge EXCEPT !.cargo_packets = MapPut(@, INVALID_STATION, glob._packets)],
          glob |-> glob, aborted |-> FALSE]

\* SwapPackets: swap _packets with the INVALID_STATION list of the goods
\* entry. Result: [ge, glob, aborted].
SwapPackets(ge, glob) ==
    LET has == MapHas(ge.cargo_packets, INVALID_STATION)
        cur == IF has THEN MapGet(ge.cargo_packets, INVALID_STATION) ELSE <<>>
    IN  IF glob._packets = <<>> /\ ~has
        THEN [ge |-> ge, glob |-> glob, aborted |-> FALSE]
        ELSE [ge |-> [ge EXCEPT !.cargo_packets = MapPut(@, INVALID_STATION, glob._packets)],
              glob |-> [glob EXCEPT !._packets = cur],
              aborted |-> glob._packets # <<>> /\ cur # <<>>]

\* The flows read with a FlowStat of its own for every tuple: the map keeps
\* the first share of a source only.
RECURSIVE LoadFlows_no_append(_, _, _, _, _, _, _)
LoadFlows_no_append(rd, flows, flow, fs, prev_source, j, stv) ==
    IF ~rd.ok \/ j >= rd.glob._num_flows THEN [rd |-> rd, flows |-> flows]
    ELSE LET Read(r) ==
                 IF ~r.ok THEN [rd |-> Reader(r), flows |-> flows]
                 ELSE LoadFlows_no_append(
                          Reader(r),
                          MapInsert(flows, r.obj.source,
                                    FlowStat(r.obj.via, r.obj.share, r.obj.restricted)),
                          r.obj, r.obj.source, r.obj.source, j + 1, stv)
         IN  Read(ReadObject(rd, flow, _flow_desc, stv))

\* Load_STNN, lines 653-661: the flows of one goods entry, from the j-th on.
\* Result: [rd, flows].
RECURSIVE LoadFlows(_, _, _, _, _, _, _)
LoadFlows(rd, flows, flow, fs, prev_source, j, stv) ==
    IF ~rd.ok \/ j >= rd.glob._num_flows THEN [rd |-> rd, flows |-> flows]
    ELSE LET Read(r) ==
                 IF ~r.ok THEN [rd |-> Reader(r), flows |-> flows]
                 ELSE LoadFlows(Reader(r),
                                IF fs = NoFlowStat \/ prev_source # r.obj.source
                                THEN MapInsert(flows, r.obj.source,
                                               FlowStat(r.obj.via, r.obj.share,
                                                        r.obj.restricted))
                                ELSE MapPut(flows, fs,
                                            AppendShare(MapGet(flows, fs), r.obj.via,
                                                        r.obj.share, r.obj.restricted)),
                                r.obj, r.obj.source, r.obj.source, j + 1, stv)
         IN  Read(ReadObject(rd, flow, _flow_desc, stv))

\* Load_STNN, lines 665-670: the cargo lists of one goods entry.
\* Result: [rd, packets, aborted].
RECURSIVE LoadCargoLists(_, _, _, _, _, _)
LoadCargoLists(rd, packets, pair, aborted, j, stv) ==
    IF ~rd.ok \/ j >= rd.glob._num_dests
    THEN [rd |-> rd, packets |-> packets, aborted |-> aborted]
    ELSE LET Read(r) ==
                 LET old == IF MapHas(packets, r.obj.first)
                            THEN MapGet(packets, r.obj.first) ELSE <<>>
                 IN  IF ~r.ok
                     THEN [rd |-> Reader(r), packets |-> packets, aborted |-> aborted]
                     ELSE LoadCargoLists(Reader(r),
                                         MapPut(packets, r.obj.first, r.obj.second),
                                         [r.obj EXCEPT !.second = old],
                                         aborted \/ old # <<>>, j + 1, stv)
         IN  Read(ReadObject(rd, pair, _cargo_list_desc, stv))

\* Load_STNN, lines 648-672: the goods entries i.. of a station.
\* q: [rd, st, aborted].
RECURSIVE LoadGoods(_, _, _)
LoadGoods(q, i, stv) ==
    IF i > NUM_CARGO \/ ~q.rd.ok THEN q
    ELSE LET \* lines 662-663: the packets are swapped in
             Swapped(rd, sw) ==
                 LoadGoods([rd |-> [rd EXCEPT !.glob = sw.glob],
                            st |-> [q.st EXCEPT !.goods[i] = sw.ge],
                            aborted |-> q.aborted \/ sw.aborted], i + 1, stv)
             \* lines 665-670: the cargo lists are read
             Listed(ge, cl) ==
                 LoadGoods([rd |-> cl.rd,
                            st |-> [q.st EXCEPT
                                       !.goods[i] = [ge EXCEPT !.cargo_packets = cl.packets]],
                            aborted |-> q.aborted \/ cl.aborted], i + 1, stv)
             Packets(ge, rd) ==
                 IF IsOTTDVersionBefore(stv, 183)
                 THEN Swapped(rd, SwapPackets(ge, rd.glob))
                 ELSE Listed(ge, LoadCargoLists(rd, ge.cargo_packets, NewStationCargoPair,
                                                FALSE, 0, stv))
             \* lines 650-661: the flows are read
             Flows(obj, f) ==
                 IF ~f.rd.ok THEN [q EXCEPT !.rd = f.rd]
                 ELSE Packets([obj EXCEPT !.flows = f.flows], f.rd)
             \* line 649: the goods entry is read
             Read(r) ==
                 Flows(r.obj, LoadFlows(Reader(r), r.obj.flows, NewFlowSaveLoad, NoFlowStat,
                                        INVALID_STATION, 0, stv))
         IN  Read(ReadObject(q.rd, q.st.goods[i], GetGoodsDesc, stv))

\* Load_STNN, lines 675-681: the speclist of a base station.
\* Result: [rd, list].
RECURSIVE LoadSpecList(_, _, _, _)
LoadSpecList(rd, list, i, stv) ==
    IF ~rd.ok \/ i > Len(list) THEN [rd |-> rd, list |-> list]
    ELSE LET Read(r) == LoadSpecList(Reader(r), [list EXCEPT ![i] = r.obj], i + 1, stv)
         IN  Read(ReadObject(rd, list[i], _station_speclist_desc, stv))

\* Load_STNN, lines 631-681: one element. Result: the loader, with the new
\* base station at its index.
LoadBaseStation(ld, index, data, stv) ==
    LET rd0 == [buf |-> Drop(data, 1), glob |-> ld.glob, ok |-> TRUE]
        wp  == (data[1] \div FACIL_WAYPOINT) % 2 = 1
        full == ~CanAllocateItem(ld.ps.storages)
        psa == FirstFree(ld.ps.storages)
        \* lines 675-681: the speclist is read and the element ends.
        Done(ps1, g, sp) ==
            IF ~sp.rd.ok \/ Len(sp.rd.buf) # 0
            THEN [SlErrorCorrupt(ld, index) EXCEPT !.glob = sp.rd.glob]
            ELSE [ld EXCEPT
                     !.ps = [ps1 EXCEPT
                                !.stations[index] =
                                    IF g.st.num_specs # 0
                                    THEN [g.st EXCEPT !.speclist = sp.list] ELSE g.st],
                     !.glob = sp.rd.glob,
                     !.aborted = @ \/ g.aborted]
        Specs(ps1, g) ==
            IF ~g.rd.ok THEN [SlErrorCorrupt(ld, index) EXCEPT !.glob = g.rd.glob]
            ELSE Done(ps1, g,
                      LoadSpecList(g.rd, [i \in 1..g.st.num_specs |-> NewSpecList], 1, stv))
        \* lines 641-646: the old persistent storage of an airport.
        Read(r) ==
            LET old == /\ IsOTTDVersionBefore(stv, 161) /\ ~IsOTTDVersionBefore(stv, 145)
                       /\ (r.obj.facilities \div FACIL_AIRPORT) % 2 = 1
            IN  IF ~r.ok THEN [SlErrorCorrupt(ld, index) EXCEPT !.glob = r.glob]
                ELSE Specs(IF ~wp /\ old /\ ~full
                           THEN [ld.ps EXCEPT !.storages[psa] =
                                    [NewPersistentStorage EXCEPT
                                        !.storage = r.glob._old_st_persistent_storage]]
                           ELSE ld.ps,
                           IF wp THEN [rd |-> Reader(r), st |-> r.obj, aborted |-> FALSE]
                           ELSE LoadGoods(
                                    [rd |-> Reader(r),
                                     st |-> IF old /\ ~full
                                            THEN [r.obj EXCEPT
                                                     !.airport_psa = Ptr("storages", psa)]
                                            ELSE r.obj,
                                     aborted |-> old /\ full], 1, stv))
    IN  IF Len(data) = 0 \/ ~CanPlace(ld.ps.stations, index)
        THEN SlErrorCorrupt(ld, index)
        ELSE Read(IF wp THEN ReadObject(rd0, NewWaypoint, _waypoint_desc, stv)
                  ELSE ReadObject(rd0, NewStation, _station_desc, stv))

\* Load_STNN, lines 630-682: the elements from the i-th on.
RECURSIVE LoadStations(_, _, _, _)
LoadStations(ld, elems, i, stv) ==
    IF ~ld.ok \/ ld.aborted \/ i > Len(elems) THEN ld
    ELSE IF elems[i] = <<>> THEN LoadStations(ld, elems, i + 1, stv)
    ELSE LoadStations(LoadBaseStation(ld, i - 1, elems[i], stv), elems, i + 1, stv)

\* The load that takes _num_flows as it finds it.
Load_STNN_no_reset(ld, elems, stv) == LoadStations(ld, elems, 1, stv)

Load_STNN(ld, elems, stv) ==
    LoadStations([ld EXCEPT !.glob._num_flows = 0], elems, 1, stv)

\* GoodsEntry::GoodsEntryStatus: the bits Load_STNS sets.
GES_ACCEPTANCE == 0
GES_RATING == 1

\* The goods entries of the files before legacy version 55.
OLD_NUM_CARGO == 12

\* SB(x, s, 1, d) of a status byte.
SB1(x, s, d) ==
    LET bit == 2 ^ s
    IN  (x - ((x \div bit) % 2) * bit) + (IF d THEN bit ELSE 0)

\* new CargoPacket(count, days_in_transit, source, source_xy, loaded_at_xy,
\* feeder_share)
NewCargoPacket(count, days, source, source_xy, loaded_at_xy, feeder_share) ==
    [kind |-> "CargoPacket", count |-> count, days_in_transit |-> days,
     source |-> source, source_xy |-> source_xy, loaded_at_xy |-> loaded_at_xy,
     feeder_share |-> feeder_share]

\* Load_STNS, lines 459-476: the packet of a goods entry of a file before
\* legacy version 68. q: [rd, st, ps, aborted, full]; ge: the entry read.
OldPacket(q, ge, glob, stv) ==
    LET wa == glob._waiting_acceptance
        acc == SB1(ge.status, GES_ACCEPTANCE, (wa \div 32768) % 2 = 1)
        source == IF IsOTTDVersionBefore(stv, 7) /\ glob._cargo_source = 255
                  THEN INVALID_STATION ELSE glob._cargo_source
        cp == FirstFree(q.ps.cargopackets)
        old == IF MapHas(ge.cargo_packets, INVALID_STATION)
               THEN MapGet(ge.cargo_packets, INVALID_STATION) ELSE <<>>
    IN  IF ~IsOTTDVersionBefore(stv, 68) THEN [ge |-> ge, ps |-> q.ps, full |-> FALSE]
        ELSE IF wa % 4096 = 0
        THEN [ge |-> [ge EXCEPT !.status = acc], ps |-> q.ps, full |-> FALSE]
        ELSE IF ~CanAllocateItem(q.ps.cargopackets)
        THEN [ge |-> [ge EXCEPT !.status = acc], ps |-> q.ps, full |-> TRUE]
        ELSE [ge |-> [ge EXCEPT
                         !.status = SB1(acc, GES_RATING, TRUE),
                         !.cargo_packets =
                             MapPut(@, INVALID_STATION,
                                    Append(old, Ptr("cargopackets", cp)))],
              ps |-> [q.ps EXCEPT
                         !.cargopackets[cp] =
                             NewCargoPacket(wa % 4096, glob._cargo_days, source,
                                            glob._cargo_source_xy, glob._cargo_source_xy,
                                            glob._cargo_feeder_share)],
              full |-> FALSE]

\* Load_STNS, lines 455-477: the goods entries i.. of a station.
\* q: [rd, st, ps, aborted, full]: aborted by the assertion of SwapPackets,
\* full by the assertion of line 469.
RECURSIVE LoadOldGoods(_, _, _, _)
LoadOldGoods(q, i, num_cargo, stv) ==
    IF i > num_cargo \/ ~q.rd.ok \/ q.aborted \/ q.full THEN q
    ELSE LET Made(rd, sw, p) ==
                 LoadOldGoods([rd |-> [rd EXCEPT !.glob = sw.glob],
                               st |-> [q.st EXCEPT !.goods[i] = p.ge],
                               ps |-> p.ps,
                               aborted |-> sw.aborted,
                               full |-> p.full], i + 1, num_cargo, stv)
             Swapped(rd, sw) ==
                 IF sw.aborted THEN [q EXCEPT !.aborted = TRUE]
                 ELSE Made(rd, sw, OldPacket(q, sw.ge, sw.glob, stv))
             Read(r) ==
                 IF ~r.ok THEN [q EXCEPT !.rd = Reader(r)]
                 ELSE Swapped(Reader(r), SwapPackets(r.obj, r.glob))
         IN  Read(ReadObject(q.rd, q.st.goods[i], GetGoodsDesc, stv))

\* new Station() of a program built with so many cargoes (NUM_CARGO).
StationOf(cargoes) ==
    [NewStation EXCEPT !.goods = [i \in 1..cargoes |-> NewGoodsEntry]]

\* Load_STNS, lines 448-485: one element, in a program built with so many
\* cargoes. Result: the loader, with the new station at its index.
LoadOldStation(ld, index, data, stv, cargoes) ==
    LET num_cargo == IF IsOTTDVersionBefore(stv, 55) THEN OLD_NUM_CARGO ELSE cargoes
        Done(g, sp) ==
            IF ~sp.rd.ok \/ Len(sp.rd.buf) # 0
            THEN [SlErrorCorrupt(ld, index) EXCEPT !.glob = sp.rd.glob]
            ELSE [ld EXCEPT
                     !.ps = [g.ps EXCEPT
                                !.stations[index] =
                                    IF g.st.num_specs # 0
                                    THEN [g.st EXCEPT !.speclist = sp.list] ELSE g.st],
                     !.glob = sp.rd.glob]
        Specs(g) ==
            IF g.aborted \/ g.full
            THEN [ld EXCEPT !.ps = [g.ps EXCEPT !.stations[index] = g.st],
                            !.glob = g.rd.glob, !.aborted = TRUE]
            ELSE IF ~g.rd.ok THEN [SlErrorCorrupt(ld, index) EXCEPT !.glob = g.rd.glob]
            ELSE Done(g, LoadSpecList(g.rd, [i \in 1..g.st.num_specs |-> NewSpecList],
                                      1, stv))
        Read(r) ==
            IF ~r.ok THEN [SlErrorCorrupt(ld, index) EXCEPT !.glob = r.glob]
            ELSE Specs(LoadOldGoods([rd |-> [buf |-> r.buf,
                                             glob |-> [r.glob EXCEPT
                                                          !._waiting_acceptance = 0],
                                             ok |-> TRUE],
                                     st |-> r.obj, ps |-> ld.ps,
                                     aborted |-> FALSE, full |-> FALSE],
                                    1, num_cargo, stv))
    IN  IF ~CanPlace(ld.ps.stations, index) THEN SlErrorCorrupt(ld, index)
        ELSE Read(ReadObject([buf |-> data, glob |-> ld.glob, ok |-> TRUE],
                             StationOf(cargoes), _old_station_desc, stv))

\* Load_STNS, lines 447-486: the elements from the i-th on.
RECURSIVE LoadOldStations(_, _, _, _, _)
LoadOldStations(ld, elems, i, stv, cargoes) ==
    IF ~ld.ok \/ ld.aborted \/ i > Len(elems) THEN ld
    ELSE IF elems[i] = <<>> THEN LoadOldStations(ld, elems, i + 1, stv, cargoes)
    ELSE LoadOldStations(LoadOldStation(ld, i - 1, elems[i], stv, cargoes),
                         elems, i + 1, stv, cargoes)

\* Load_STNS without the reset of the staging variables.
Load_STNS_no_reset(ld, elems, stv, cargoes) ==
    LoadOldStations(ld, elems, 1, stv, cargoes)

\* Load_STNS in a program built with so many cargoes.
Load_STNS(ld, elems, stv, cargoes) ==
    LoadOldStations([ld EXCEPT !.glob._cargo_source_xy = 0, !.glob._cargo_days = 0,
                               !.glob._cargo_feeder_share = 0], elems, 1, stv, cargoes)

\* The elements allocated one after the other, whatever index the file gives
\* them: an element of zero length takes no slot.
RECURSIVE LoadArray_dense(_, _, _, _, _, _, _)
LoadArray_dense(ld, elems, i, pool, fresh, sld, stv) ==
    IF ~ld.ok \/ i > Len(elems) THEN ld
    ELSE IF elems[i] = <<>> THEN LoadArray_dense(ld, elems, i + 1, pool, fresh, sld, stv)
    ELSE LET Read(r) ==
                 LoadArray_dense(
                     IF CanAllocateItem(ld.ps[pool]) /\ r.ok /\ Len(r.buf) = 0
                     THEN [ld EXCEPT !.ps[pool][FirstFree(ld.ps[pool])] = r.obj,
                                     !.glob = r.glob]
                     ELSE SlErrorCorrupt(ld, i - 1),
                     elems, i + 1, pool, fresh, sld, stv)
         IN  Read(ReadObject([buf |-> elems[i], glob |-> ld.glob, ok |-> TRUE],
                             fresh, sld, stv))

\* while ((index = reader->IterateChunk()) != -1) { new (index) T; ReadObject }
RECURSIVE LoadArray(_, _, _, _, _, _, _)
LoadArray(ld, elems, i, pool, fresh, sld, stv) ==
    IF ~ld.ok \/ i > Len(elems) THEN ld
    ELSE IF elems[i] = <<>> THEN LoadArray(ld, elems, i + 1, pool, fresh, sld, stv)
    ELSE LET Read(r) ==
                 LoadArray(IF CanPlace(ld.ps[pool], i - 1) /\ r.ok /\ Len(r.buf) = 0
                           THEN [ld EXCEPT !.ps[pool][i - 1] = r.obj, !.glob = r.glob]
                           ELSE SlErrorCorrupt(ld, i - 1),
                           elems, i + 1, pool, fresh, sld, stv)
         IN  Read(ReadObject([buf |-> elems[i], glob |-> ld.glob, ok |-> TRUE],
                             fresh, sld, stv))

\* A load callback that resolves the references of its objects itself.
Load_ROADSTOP_eager(ld, elems, stv) ==
    LET l == LoadArray(ld, elems, 1, "roadstops", NewRoadStop, _roadstop_desc, stv)
        fix(i) == SlObjectPtrs(l.ps, l.ps.roadstops[i], l.glob, _roadstop_desc, stv)
    IN  IF ~l.ok THEN l
        ELSE [l EXCEPT !.ps.roadstops =
                 [i \in DOMAIN l.ps.roadstops |->
                     IF l.ps.roadstops[i] = NoObj THEN NoObj ELSE fix(i).obj]]

Load_ROADSTOP(ld, elems, stv) ==
    LoadArray(ld, elems, 1, "roadstops", NewRoadStop, _roadstop_desc, stv)

\* A load callback that resolves the references of each dock as it reads it,
\* against the docks of lower index.
Load_DOCKS_eager(ld, elems, stv) ==
    LET l == LoadArray(ld, elems, 1, "docks", NewDock, _dock_desc, stv)
        seen(i) == [l.ps EXCEPT !.docks =
                       [j \in DOMAIN l.ps.docks |->
                           IF j < i THEN l.ps.docks[j] ELSE NoObj]]
        fix(i) == SlObjectPtrs(seen(i), l.ps.docks[i], l.glob, _dock_desc, stv)
        bad == {i \in DOMAIN l.ps.docks : l.ps.docks[i] # NoObj /\ ~fix(i).ok}
    IN  IF ~l.ok THEN l
        ELSE IF bad # {}
        THEN SlErrorCorrupt(l, CHOOSE i \in bad : \A j \in bad : i <= j)
        ELSE [l EXCEPT !.ps.docks =
                 [i \in DOMAIN l.ps.docks |->
                     IF l.ps.docks[i] = NoObj THEN NoObj ELSE fix(i).obj]]

Load_DOCKS(ld, elems, stv) ==
    LoadArray(ld, elems, 1, "docks", NewDock, _dock_desc, stv)

(***************************************************************************)
(* station_sl.cpp: the pointer fixup callbacks.                            *)
(***************************************************************************)

\* Ptrs_STNN, lines 700-702: the cargo lists of one goods entry.
\* Result: [packets, ok].
PtrsCargoLists(ps, packets, glob, stv) ==
    LET r == [m \in 1..Len(packets) |->
                 SlObjectPtrs(ps, [first |-> packets[m].key, second |-> packets[m].val],
                              glob, _cargo_list_desc, stv)]
    IN  [packets |-> [m \in 1..Len(packets) |->
                         [key |-> packets[m].key, val |-> r[m].obj.second]],
         ok |-> \A m \in 1..Len(packets) : r[m].ok]

\* Ptrs_STNN, lines 693-703: one goods entry. Result: [ge, glob, ok, aborted].
PtrsGoodsEntry(ps, ge, glob, stv) ==
    LET \* lines 695-697
        SwappedBack(s1, o, s2) ==
            [ge |-> s2.ge, glob |-> s2.glob, ok |-> o.ok,
             aborted |-> s1.aborted \/ s2.aborted]
        FixedOld(s1, o) == SwappedBack(s1, o, SwapPackets(o.obj, o.glob))
        Swapped(s1) == FixedOld(s1, SlObjectPtrs(ps, s1.ge, s1.glob, GetGoodsDesc, stv))
        \* lines 699-702
        Listed(o, cl) ==
            [ge |-> [o.obj EXCEPT !.cargo_packets = cl.packets], glob |-> o.glob,
             ok |-> o.ok /\ cl.ok, aborted |-> FALSE]
        Fixed(o) == Listed(o, PtrsCargoLists(ps, o.obj.cargo_packets, o.glob, stv))
    IN  IF stv # NoVersion /\ IsOTTDVersionBefore(stv, 183)
        THEN Swapped(SwapPackets(ge, glob))
        ELSE Fixed(SlObjectPtrs(ps, ge, glob, GetGoodsDesc, stv))

\* Ptrs_STNN, lines 692-704: the goods entries i.. of a station.
\* q: [st, glob, ok, aborted].
RECURSIVE PtrsGoods(_, _, _, _)
PtrsGoods(ps, q, i, stv) ==
    IF i > NUM_CARGO THEN q
    ELSE LET Fixed(r) ==
                 PtrsGoods(ps, [st |-> [q.st EXCEPT !.goods[i] = r.ge], glob |-> r.glob,
                                ok |-> q.ok /\ r.ok, aborted |-> q.aborted \/ r.aborted],
                           i + 1, stv)
         IN  Fixed(PtrsGoodsEntry(ps, q.st.goods[i], q.glob, stv))

\* Ptrs_STNN, lines 691-711: the base stations of indices i..: the stations
\* with their goods, then (in the second loop) the waypoints.
RECURSIVE PtrsStations(_, _, _, _)
PtrsStations(ld, i, waypoints, stv) ==
    IF i \notin DOMAIN ld.ps.stations \/ ~ld.ok \/ ld.aborted THEN ld
    ELSE LET bst == ld.ps.stations[i]
             \* g: the goods entries fixed (lines 692-704); o: the object fixed
             Fixed(g, o) ==
                 IF ~(o.ok /\ g.ok) THEN SlErrorCorrupt(ld, i)
                 ELSE [ld EXCEPT !.ps.stations[i] = o.obj, !.glob = o.glob,
                                 !.aborted = g.aborted]
             Goods(g) ==
                 Fixed(g, IF waypoints
                          THEN SlObjectPtrs(ld.ps, bst, ld.glob, _waypoint_desc, stv)
                          ELSE SlObjectPtrs(ld.ps, g.st, g.glob, _station_desc, stv))
         IN  IF bst = NoObj \/ (bst.kind = "Waypoint") # waypoints
             THEN PtrsStations(ld, i + 1, waypoints, stv)
             ELSE PtrsStations(
                      Goods(IF waypoints
                            THEN [st |-> bst, glob |-> ld.glob, ok |-> TRUE,
                                  aborted |-> FALSE]
                            ELSE PtrsGoods(ld.ps, [st |-> bst, glob |-> ld.glob,
                                                   ok |-> TRUE, aborted |-> FALSE],
                                           1, stv)),
                      i + 1, waypoints, stv)

\* The station fixups run on every file but the legacy ones before 123.
Ptrs_STNN_unless_null(ld, stv) ==
    IF stv = NoVersion \/ IsOTTDVersionBefore(stv, 123) THEN ld
    ELSE PtrsStations(PtrsStations(ld, 0, FALSE, stv), 0, TRUE, stv)

Ptrs_STNN(ld, stv) ==
    IF stv # NoVersion /\ IsOTTDVersionBefore(stv, 123) THEN ld
    ELSE PtrsStations(PtrsStations(ld, 0, FALSE, stv), 0, TRUE, stv)

\* FOR_ALL_x(o) SlObjectPtrs(o, sld, stv)
RECURSIVE PtrsArray(_, _, _, _, _)
PtrsArray(ld, i, pool, sld, stv) ==
    IF i \notin DOMAIN ld.ps[pool] \/ ~ld.ok THEN ld
    ELSE LET Fixed(o) ==
                 IF ~o.ok THEN SlErrorCorrupt(ld, i)
                 ELSE [ld EXCEPT !.ps[pool][i] = o.obj, !.glob = o.glob]
         IN  IF ld.ps[pool][i] = NoObj THEN PtrsArray(ld, i + 1, pool, sld, stv)
             ELSE PtrsArray(Fixed(SlObjectPtrs(ld.ps, ld.ps[pool][i], ld.glob, sld, stv)),
                            i + 1, pool, sld, stv)

Ptrs_ROADSTOP(ld, stv) == PtrsArray(ld, 0, "roadstops", _roadstop_desc, stv)

Ptrs_DOCKS(ld, stv) == PtrsArray(ld, 0, "docks", _dock_desc, stv)

\* Ptrs_STNS, lines 495-505: the stations of indices i..
RECURSIVE PtrsOldStations(_, _, _)
PtrsOldStations(ld, i, stv) ==
    IF i \notin DOMAIN ld.ps.stations \/ ~ld.ok \/ ld.aborted THEN ld
    ELSE LET st == ld.ps.stations[i]
             Fixed(g, o) ==
                 IF ~(o.ok /\ g.ok) THEN SlErrorCorrupt(ld, i)
                 ELSE [ld EXCEPT !.ps.stations[i] = o.obj, !.glob = o.glob,
                                 !.aborted = g.aborted]
             Goods(g) ==
                 Fixed(g, SlObjectPtrs(ld.ps, g.st, g.glob, _old_station_desc, stv))
         IN  IF st = NoObj \/ st.kind = "Waypoint" THEN PtrsOldStations(ld, i + 1, stv)
             ELSE PtrsOldStations(
                      Goods(IF ~IsOTTDVersionBefore(stv, 68)
                            THEN PtrsGoods(ld.ps, [st |-> st, glob |-> ld.glob,
                                                   ok |-> TRUE, aborted |-> FALSE],
                                           1, stv)
                            ELSE [st |-> st, glob |-> ld.glob, ok |-> TRUE,
                                  aborted |-> FALSE]),
                      i + 1, stv)

\* Only run when legacy savegame version is less than 123.
Ptrs_STNS(ld, stv) ==
    IF stv = NoVersion \/ ~IsOTTDVersionBefore(stv, 123) THEN ld
    ELSE PtrsOldStations(ld, 0, stv)

(***************************************************************************)
(* The games saved: object graphs of stations, waypoints, road stops and   *)
(* docks, with the towns, vehicles, cargo packets and persistent storages  *)
(* they refer to.                                                          *)
(***************************************************************************)

\* Slots of every pool (64000 stations and more in the game).
PoolSize == 2

Slots == 0..(PoolSize - 1)

\* The shapes of the goods entries, flows and packets of a game.
Variants == {0, 1, 2}

\* The sequences of distinct slots: the order of a chain of road stops.
Chains ==
    {c \in UNION {[1..n -> Slots] : n \in 0..PoolSize} :
        \A i, j \in DOMAIN c : i # j => c[i] # c[j]}

Reverse(c) == [i \in 1..Len(c) |-> c[Len(c) + 1 - i]]

\* The slot after slot i in chain c, as a reference into pool.
NextIn(c, i, pool) ==
    LET k == CHOOSE k \in DOMAIN c : c[k] = i
    IN  IF k < Len(c) THEN Ptr(pool, c[k + 1]) ELSE NullPtr

\* The first object of a chain.
Head_(c, pool) == IF c = <<>> THEN NullPtr ELSE Ptr(pool, c[1])

\* The chain of docks of a game: the road stops' order reversed, or
\* without its first slot.
DockChain(c, v) == IF v = 2 /\ c # <<>> THEN Tail(c) ELSE Reverse(c)

\* A goods entry of shape t.
SceneGoods(t) ==
    [status |-> t + 1, time_since_pickup |-> 7, rating |-> 175, last_speed |-> 100 + t,
     last_age |-> t, amount_fract |-> 200, cargo_reserved_count |-> t,
     link_graph |-> 3, node |-> t, max_waiting_cargo |-> 1000 + t,
     flows |->
        CASE t = 0 -> <<>>
          [] t = 1 -> <<[key |-> 0, val |-> [shares |-> <<[key |-> 3, val |-> 1]>>,
                                             unrestricted |-> 3]]>>
          [] OTHER -> <<[key |-> 0,
                         val |-> [shares |-> <<[key |-> 2, val |-> 1],
                                               [key |-> 5, val |-> INVALID_STATION]>>,
                                  unrestricted |-> 2]],
                        [key |-> 1,
                         val |-> [shares |-> <<[key |-> 4, val |-> 0]>>,
                                  unrestricted |-> 0]]>>,
     cargo_packets |->
        CASE t = 0 -> <<>>
          [] t = 1 -> <<[key |-> 1, val |-> <<Ptr("cargopackets", 0)>>]>>
          [] OTHER -> <<[key |-> 0, val |-> <<Ptr("cargopackets", 1),
                                              Ptr("cargopackets", 0)>>],
                        [key |-> INVALID_STATION,
                         val |-> <<Ptr("cargopackets", 1)>>]>>]

\* The station of slot i; the first station owns the chains.
SceneStation(i, first, c, v) ==
    LET airport == first /\ v = 1 IN
    [NewStation EXCEPT
        !.xy = 10 + i, !.town = Ptr("towns", PoolSize - 1), !.string_id = 32768 + i,
        !.name = IF v = 0 THEN <<>> ELSE <<65 + i, 66>>,
        !.delete_ctr = i, !.owner = 1 + v,
        !.facilities = IF airport THEN 1 + FACIL_AIRPORT ELSE 1,
        !.build_date = IF v = 2 THEN -5 ELSE 700000 + i,
        !.random_bits = 40000 + i, !.waiting_triggers = v,
        !.num_specs = IF first THEN v ELSE 0,
        !.speclist = IF first THEN [k \in 1..v |-> [grfid |-> 1000 * k, localidx |-> k]]
                     ELSE <<>>,
        !.train_station_tile = 30 + i, !.train_station_w = 2 + v, !.train_station_h = 64,
        !.bus_stops = IF first THEN Head_(c, "roadstops") ELSE NullPtr,
        !.truck_stops = IF c = <<>> THEN NullPtr ELSE Ptr("roadstops", c[Len(c)]),
        !.docks = IF first THEN Head_(DockChain(c, v), "docks") ELSE NullPtr,
        !.airport_tile = 50 + i, !.airport_w = 3, !.airport_h = 4, !.airport_type = v,
        !.airport_layout = 1, !.airport_flags = 70000 * v, !.airport_rotation = v,
        !.airport_psa = IF airport THEN Ptr("storages", 0) ELSE NullPtr,
        !.indtype = 255, !.time_since_load = 255, !.time_since_unload = i,
        !.last_vehicle_type = v, !.had_vehicle_of_type = 5,
        !.loading_vehicles =
            CASE v = 0 -> <<>>
              [] v = 1 -> <<Ptr("vehicles", 1), Ptr("vehicles", 0)>>
              [] OTHER -> <<Ptr("vehicles", 0)>>,
        !.always_accepted = 6 + v,
        !.goods = [k \in 1..NUM_CARGO |-> SceneGoods((v + k - 1) % 3)]]

\* The waypoint of slot i.
SceneWaypoint(i, v) ==
    [NewWaypoint EXCEPT
        !.xy = 10 + i, !.town = Ptr("towns", PoolSize - 1), !.string_id = 32768 + i,
        !.name = IF v = 1 THEN <<>> ELSE <<87, 80>>,
        !.delete_ctr = 0, !.owner = 1 + v,
        !.facilities = FACIL_WAYPOINT + (IF v = 2 THEN 16 ELSE 1),
        !.build_date = 700000 + i, !.random_bits = i, !.waiting_triggers = 0,
        !.num_specs = IF v = 2 THEN 1 ELSE 0,
        !.speclist = IF v = 2 THEN <<[grfid |-> 77, localidx |-> 2]>> ELSE <<>>,
        !.town_cn = v, !.train_station_tile = 30 + i,
        !.train_station_w = 1, !.train_station_h = 1 + v]

\* The pools of a game: kinds tells what each station slot holds, c is the
\* chain of road stops, v the shape of everything else.
Scene(kinds, c, v) ==
    LET FirstSt == {i \in Slots : kinds[i] = "Station"
                                  /\ \A j \in Slots : kinds[j] = "Station" => i <= j}
        d == DockChain(c, v)
        live(ch, i) == \E k \in DOMAIN ch : ch[k] = i
    IN
    [stations |-> [i \in Slots |->
        CASE kinds[i] = "Station" -> SceneStation(i, i \in FirstSt, c, v)
          [] kinds[i] = "Waypoint" -> SceneWaypoint(i, v)
          [] OTHER -> NoObj],
     roadstops |-> [i \in Slots |->
        IF live(c, i)
        THEN [kind |-> "RoadStop", xy |-> 20 + i, status |-> (i + v) % 4,
              next |-> NextIn(c, i, "roadstops")]
        ELSE NoObj],
     docks |-> [i \in Slots |->
        IF live(d, i)
        THEN [kind |-> "Dock", xy |-> 40 + i, next |-> NextIn(d, i, "docks")]
        ELSE NoObj],
     towns |-> [i \in Slots |-> IF i = PoolSize - 1 THEN [kind |-> "Town"] ELSE NoObj],
     vehicles |-> [i \in Slots |-> [kind |-> "Vehicle"]],
     cargopackets |-> [i \in Slots |-> [kind |-> "CargoPacket"]],
     storages |-> [i \in Slots |->
        IF i = 0 /\ v = 1 /\ FirstSt # {}
        THEN [NewPersistentStorage EXCEPT !.storage[1] = 9, !.storage[OldStorageWords] = 4]
        ELSE NoObj]]

\* The games the model saves.
Scenes ==
    {Scene(kinds, c, v) :
        kinds \in [Slots -> {"none", "Station", "Waypoint"}], c \in Chains, v \in Variants}

\* The pools before a load.
EmptyPools ==
    [p \in {"stations", "roadstops", "docks", "towns", "vehicles", "cargopackets",
            "storages"} |-> [i \in Slots |-> NoObj]]

(***************************************************************************)
(* The savegame and the load operation.  The chunks of the other modules   *)
(* (vehicles and towns before the stations, cargo packets and persistent   *)
(* storages after them) carry one byte per live object.                    *)
(***************************************************************************)

\* The version the game writes: the newest one the descriptor tables name.
SAVEGAME_VERSION == 15

CurrentVersion ==
    [type |-> "SGT_FTTD", version |-> SAVEGAME_VERSION, minor_version |-> 0]

NoFile == [stv |-> [type |-> "none"], chunks |-> <<>>]

NoError == [tag |-> "", index |-> -1]

\* The chunk of a pool of another module.
OtherElems(pool) ==
    [i \in 1..ArraySize(pool) |-> IF pool[i - 1] = NoObj THEN <<>> ELSE <<1>>]

\* The load callback of a pool of another module.
RECURSIVE LoadOther(_, _, _, _, _)
LoadOther(ld, elems, i, pool, fresh) ==
    IF ~ld.ok \/ i > Len(elems) THEN ld
    ELSE IF elems[i] = <<>> THEN LoadOther(ld, elems, i + 1, pool, fresh)
    ELSE LoadOther(IF CanPlace(ld.ps[pool], i - 1) /\ elems[i] = <<1>>
                   THEN [ld EXCEPT !.ps[pool][i - 1] = fresh]
                   ELSE SlErrorCorrupt(ld, i - 1),
                   elems, i + 1, pool, fresh)

Load_VEHS(ld, elems, stv) == LoadOther(ld, elems, 1, "vehicles", [kind |-> "Vehicle"])
Load_CITY(ld, elems, stv) == LoadOther(ld, elems, 1, "towns", [kind |-> "Town"])
Load_CAPA(ld, elems, stv) ==
    LoadOther(ld, elems, 1, "cargopackets", [kind |-> "CargoPacket"])

\* The persistent storages: their words.
_storage_desc == <<
    SaveLoad("SL_ARR", SLE_UINT32, {}, OldStorageWords, V0, "storage"),
    SLE_END >>

Save_PSAS(ps, g, stv) ==
    [i \in 1..ArraySize(ps.storages) |->
        IF ps.storages[i - 1] = NoObj THEN <<>>
        ELSE WriteObject(ps.storages[i - 1], g, _storage_desc, stv)]

Load_PSAS(ld, elems, stv) ==
    LoadArray(ld, elems, 1, "storages", NewPersistentStorage, _storage_desc, stv)

\* The chunks the game writes, in the order of the chunk handler tables;
\* stnn: what Save_STNN wrote. Result: [chunks, glob].
ChunksAfter(ps, stnn, stv) ==
    [chunks |-> << [tag |-> "VEHS", elems |-> OtherElems(ps.vehicles)],
                   [tag |-> "CITY", elems |-> OtherElems(ps.towns)],
                   [tag |-> "STNN", elems |-> stnn.elems],
                   [tag |-> "ROAD", elems |-> Save_ROADSTOP(ps, stnn.glob, stv)],
                   [tag |-> "DOCK", elems |-> Save_DOCKS(ps, stnn.glob, stv)],
                   [tag |-> "CAPA", elems |-> OtherElems(ps.cargopackets)],
                   [tag |-> "PSAS", elems |-> Save_PSAS(ps, stnn.glob, stv)] >>,
     glob |-> stnn.glob]

SaveChunks(ps, g, stv) == ChunksAfter(ps, Save_STNN(ps, g, stv), stv)

\* The legacy version of the files of the predecessor program: persistent
\* storages not yet pooled, packets not yet sorted by destination.
LegacyVersion == [type |-> "SGT_OTTD", version |-> 150, minor_version |-> 0]

\* A goods entry as a legacy file holds it: its packets in _packets.
OldSaveGoods(ge, g, stv) ==
    WriteObject(ge,
                [g EXCEPT !._packets = IF MapHas(ge.cargo_packets, INVALID_STATION)
                                       THEN MapGet(ge.cargo_packets, INVALID_STATION)
                                       ELSE <<>>],
                GetGoodsDesc, stv)

\* A base station as a legacy file holds it: the words of the airport's
\* storage in the station, no flows.
OldSaveBaseStation(ps, bst, g, stv) ==
    LET g1 == [g EXCEPT !._old_st_persistent_storage =
                  IF bst.airport_psa.k = "ptr"
                  THEN ps.storages[bst.airport_psa.idx].storage
                  ELSE [i \in 1..OldStorageWords |-> 0]]
    IN  (IF IsWaypoint(bst) THEN WriteObject(bst, g, _waypoint_desc, stv)
         ELSE WriteObject(bst, g1, _station_desc, stv)
              \o Concat([i \in 1..NUM_CARGO |-> OldSaveGoods(bst.goods[i], g1, stv)],
                        NUM_CARGO))
        \o Concat([i \in 1..bst.num_specs |->
                      WriteObject(bst.speclist[i], g, _station_speclist_desc, stv)],
                  bst.num_specs)

\* The chunks of the legacy file of a game.
OldChunks(ps, g, stv) ==
    << [tag |-> "VEHS", elems |-> OtherElems(ps.vehicles)],
       [tag |-> "CITY", elems |-> OtherElems(ps.towns)],
       [tag |-> "STNN",
        elems |-> [i \in 1..ArraySize(ps.stations) |->
                      IF ps.stations[i - 1] = NoObj THEN <<>>
                      ELSE OldSaveBaseStation(ps, ps.stations[i - 1], g, stv)]],
       [tag |-> "ROAD", elems |-> Save_ROADSTOP(ps, g, stv)],
       [tag |-> "CAPA", elems |-> OtherElems(ps.cargopackets)] >>

\* The game in memory is saved in the current format.
Save ==
    /\ phase = "Running"
    /\ \E w \in {SaveChunks(pools, globals, CurrentVersion)} :
           /\ savegame' = [stv |-> CurrentVersion, chunks |-> w.chunks]
           /\ globals' = w.glob
    /\ saved' = pools
    /\ phase' = "Unopened"
    /\ UNCHANGED <<pools, pos, err, log>>

\* A legacy file of the game is at hand instead.
LegacyFile ==
    /\ phase = "Running"
    /\ savegame' = [stv |-> LegacyVersion,
                    chunks |-> OldChunks(pools, globals, LegacyVersion)]
    /\ saved' = pools
    /\ phase' = "Unopened"
    /\ UNCHANGED <<pools, pos, globals, err, log>>

\* The savegame is opened and its format identified; loading starts from
\* empty pools.
SlOpen ==
    /\ phase = "Unopened"
    /\ IF savegame.stv.type \in {"SGT_OTTD", "SGT_FTTD"}
       THEN phase' = "FormatIdentified" /\ err' = err
       ELSE phase' = "Corrupt" /\ err' = [tag |-> "", index |-> -1, what |-> "format"]
    /\ pools' = EmptyPools
    /\ pos' = 0
    /\ log' = <<>>
    /\ UNCHANGED <<saved, savegame, globals>>

\* The load callback of the next chunk of the savegame runs over all its
\* elements; a corrupt savegame ends the load with empty pools.
SlLoadChunk(tag, Load(_, _, _)) ==
    /\ phase = "FormatIdentified"
    /\ pos < Len(savegame.chunks)
    /\ savegame.chunks[pos + 1].tag = tag
    /\ \E ld \in {Load(Loader(pools, globals), savegame.chunks[pos + 1].elems,
                      savegame.stv)} :
           /\ pools' = IF ld.ok \/ ld.aborted THEN ld.ps ELSE EmptyPools
           /\ globals' = ld.glob
           /\ phase' = IF ld.aborted THEN "Aborted"
                       ELSE IF ~ld.ok THEN "Corrupt"
                       ELSE IF pos + 1 = Len(savegame.chunks) THEN "ChunksRawLoaded"
                       ELSE phase
           /\ err' = IF ~ld.aborted /\ ~ld.ok
                     THEN [tag |-> tag, index |-> ld.index, what |-> "load"] ELSE err
           /\ pos' = IF ld.ok /\ ~ld.aborted /\ pos + 1 < Len(savegame.chunks)
                     THEN pos + 1 ELSE 0
    /\ log' = Append(log, <<"Load", tag>>)
    /\ UNCHANGED <<saved, savegame>>

SlLoadChunk_VEHS == SlLoadChunk("VEHS", Load_VEHS)
SlLoadChunk_CITY == SlLoadChunk("CITY", Load_CITY)
SlLoadChunk_STNN == SlLoadChunk("STNN", Load_STNN)
SlLoadChunk_ROAD == SlLoadChunk("ROAD", Load_ROADSTOP)
SlLoadChunk_DOCK == SlLoadChunk("DOCK", Load_DOCKS)
SlLoadChunk_CAPA == SlLoadChunk("CAPA", Load_CAPA)

SlLoadChunk_PSAS == SlLoadChunk("PSAS", Load_PSAS)

\* _station_chunk_handlers: the fixup callbacks in table order.
_station_chunk_handlers == <<"STNS", "STNN", "ROAD", "DOCK">>

\* The fixup callback of the next chunk handler runs over all its objects;
\* a reference to no object ends the load with empty pools.
SlFixPointers(tag, Ptrs(_, _)) ==
    /\ phase = "ChunksRawLoaded"
    /\ _station_chunk_handlers[pos + 1] = tag
    /\ \E ld \in {Ptrs(Loader(pools, globals), savegame.stv)},
           last \in {pos + 1 = Len(_station_chunk_handlers)} :
           /\ pools' = IF ld.ok \/ ld.aborted THEN ld.ps ELSE EmptyPools
           /\ globals' = ld.glob
           /\ phase' = IF ld.aborted THEN "Aborted"
                       ELSE IF ~ld.ok THEN "Corrupt"
                       ELSE IF last THEN "PointersResolved"
                       ELSE phase
           /\ err' = IF ~ld.aborted /\ ~ld.ok
                     THEN [tag |-> tag, index |-> ld.index, what |-> "reference"] ELSE err
           /\ pos' = IF ld.ok /\ ~ld.aborted /\ ~last THEN pos + 1 ELSE 0
    /\ log' = Append(log, <<"Ptrs", tag>>)
    /\ UNCHANGED <<saved, savegame>>

SlFixPointers_STNS == SlFixPointers("STNS", Ptrs_STNS)
SlFixPointers_STNN == SlFixPointers("STNN", Ptrs_STNN)
SlFixPointers_ROAD == SlFixPointers("ROAD", Ptrs_ROADSTOP)
SlFixPointers_DOCK == SlFixPointers("DOCK", Ptrs_DOCKS)

\* The post-load pass: it rebuilds caches from the loaded objects and
\* leaves what the savegame stores as it is.
AfterLoadGame ==
    /\ phase = "PointersResolved"
    /\ phase' = "PostLoadMigrationsApplied"
    /\ UNCHANGED <<pools, saved, savegame, pos, globals, err, log>>

\* The loaded game is handed to the caller.
SlLoadDone ==
    /\ phase = "PostLoadMigrationsApplied"
    /\ phase' = "Ready"
    /\ UNCHANGED <<pools, saved, savegame, pos, globals, err, log>>

\* The load machine at rest.
LoadIdle ==
    /\ pools = EmptyPools /\ saved = EmptyPools /\ savegame = NoFile /\ phase = "idle"
    /\ pos = 0 /\ globals = InitGlobals /\ err = NoError /\ log = <<>>

Init ==
    /\ ProbeIdle
    /\ pools \in Scenes
    /\ saved = EmptyPools
    /\ savegame = NoFile
    /\ phase = "Running"
    /\ pos = 0
    /\ globals = InitGlobals
    /\ err = NoError
    /\ log = <<>>

Next ==
    \/ (Save /\ UNCHANGED h_vars)
    \/ (LegacyFile /\ UNCHANGED h_vars)
    \/ (SlOpen /\ UNCHANGED h_vars)
    \/ (SlLoadChunk_VEHS /\ UNCHANGED h_vars)
    \/ (SlLoadChunk_CITY /\ UNCHANGED h_vars)
    \/ (SlLoadChunk_STNN /\ UNCHANGED h_vars)
    \/ (SlLoadChunk_ROAD /\ UNCHANGED h_vars)
    \/ (SlLoadChunk_DOCK /\ UNCHANGED h_vars)
    \/ (SlLoadChunk_CAPA /\ UNCHANGED h_vars)
    \/ (SlLoadChunk_PSAS /\ UNCHANGED h_vars)
    \/ (SlFixPointers_STNS /\ UNCHANGED h_vars)
    \/ (SlFixPointers_STNN /\ UNCHANGED h_vars)
    \/ (SlFixPointers_ROAD /\ UNCHANGED h_vars)
    \/ (SlFixPointers_DOCK /\ UNCHANGED h_vars)
    \/ (AfterLoadGame /\ UNCHANGED h_vars)
    \/ (SlLoadDone /\ UNCHANGED h_vars)

Spec == Init /\ [][Next]_vars

(***************************************************************************)
(* Chunk order: the same chunks of a current-format file in another        *)
(* physical order, as another writer of the format may lay them out.       *)
(***************************************************************************)

\* The order in which the game writes its chunks.
ChunkTags == <<"VEHS", "CITY", "STNN", "ROAD", "DOCK", "CAPA", "PSAS">>

\* The orders of the three station chunks among themselves.
StationOrders == {p \in [1..3 -> 3..5] : \A i, j \in 1..3 : i # j => p[i] # p[j]}

\* The orders tried: the station chunks permuted, or the whole file reversed.
ChunkOrders ==
    {<<1, 2>> \o p \o <<6, 7>> : p \in StationOrders} \cup {<<7, 6, 5, 4, 3, 2, 1>>}

\* The file is laid out anew.
Shuffle ==
    /\ phase = "Unopened"
    /\ [i \in 1..Len(savegame.chunks) |-> savegame.chunks[i].tag] = ChunkTags
    /\ \E p \in ChunkOrders :
           /\ p # <<1, 2, 3, 4, 5, 6, 7>>
           /\ savegame' = [savegame EXCEPT
                  !.chunks = [i \in 1..Len(p) |-> savegame.chunks[p[i]]]]
    /\ UNCHANGED <<pools, saved, phase, pos, globals, err, log>>

\* The games of one station in slot 0, which owns the chains.
OrderInit ==
    /\ Init
    /\ pools.stations[0] # NoObj /\ pools.stations[0].kind = "Station"
    /\ \A i \in Slots \ {0} : pools.stations[i] = NoObj

OrderNext ==
    \/ (Shuffle /\ UNCHANGED h_vars)
    \/ Next

SpecOrder == OrderInit /\ [][OrderNext]_vars

(***************************************************************************)
(* Damaged files: a savegame the game wrote (or a legacy file), changed    *)
(* in one place before it is opened.                                       *)
(***************************************************************************)

\* The file is as it was written.
Pristine ==
    \/ /\ savegame.stv = CurrentVersion
       /\ savegame.chunks = SaveChunks(saved, InitGlobals, CurrentVersion).chunks
    \/ /\ savegame.stv = LegacyVersion
       /\ savegame.chunks = OldChunks(saved, InitGlobals, LegacyVersion)

\* The chunks of the station handlers in a file, and their nonempty elements.
StationChunks(f) ==
    {c \in 1..Len(f.chunks) : f.chunks[c].tag \in {"STNN", "ROAD", "DOCK"}}

Elements(f, c) == {e \in 1..Len(f.chunks[c].elems) : f.chunks[c].elems[e] # <<>>}

\* The header names no known format.
BadFormat(f) == [f EXCEPT !.stv.type = "SGT_INVALID"]

\* An element lacks its last byte, or has one byte too many.
Truncated(f, c, e) ==
    [f EXCEPT !.chunks[c].elems[e] = SubSeq(@, 1, Len(@) - 1)]

Extended(f, c, e) == [f EXCEPT !.chunks[c].elems[e] = Append(@, 0)]

\* The next-object reference of a road stop or dock (the last field of its
\* element) is an ID beyond the pool, or the ID of a slot never allocated.
Dangling(f, c, e, id) ==
    [f EXCEPT !.chunks[c].elems[e] =
         SubSeq(@, 1, Len(@) - SlRefLen) \o ToBytes(id, SlRefLen)]

\* The chunk has an element at an index beyond the capacity of its pool.
Overflowing(f, c) ==
    [f EXCEPT !.chunks[c].elems =
         [e \in 1..(PoolSize + 1) |->
             IF e <= Len(@) THEN @[e]
             ELSE IF e = PoolSize + 1 THEN f.chunks[c].elems[CHOOSE x \in Elements(f, c) : TRUE]
             ELSE <<>>]]

\* A legacy file with a chunk of persistent storages, one for every slot of
\* their pool, ahead of the stations.
StoragesFull(f) ==
    [f EXCEPT !.chunks =
         SubSeq(@, 1, 2)
         \o <<[tag |-> "PSAS",
               elems |-> [i \in 1..PoolSize |->
                             WriteObject(NewPersistentStorage, InitGlobals,
                                         _storage_desc, f.stv)]]>>
         \o SubSeq(@, 3, Len(@))]

\* The damaged versions of a file.
Tamperings(f) ==
    {BadFormat(f)}
    \cup UNION {{Truncated(f, c, e) : e \in Elements(f, c)} : c \in StationChunks(f)}
    \cup UNION {{Extended(f, c, e) : e \in Elements(f, c)} : c \in StationChunks(f)}
    \cup UNION {{Dangling(f, c, e, id) : e \in Elements(f, c), id \in 0..PoolSize} :
                   c \in {c \in StationChunks(f) : f.chunks[c].tag # "STNN"}}
    \cup {Overflowing(f, c) :
             c \in {c \in StationChunks(f) :
                       f.chunks[c].tag # "STNN" /\ Elements(f, c) # {}}}
    \cup (IF f.stv = LegacyVersion THEN {StoragesFull(f)} ELSE {})

\* The file is damaged before it is opened.
Tamper ==
    /\ phase = "Unopened"
    /\ Pristine
    /\ \E f \in Tamperings(savegame) : savegame' = f
    /\ UNCHANGED <<pools, saved, phase, pos, globals, err, log>>

CorruptNext ==
    \/ (Tamper /\ UNCHANGED h_vars)
    \/ Next

SpecCorrupt == OrderInit /\ [][CorruptNext]_vars

(***************************************************************************)
(* Version probe: a descriptor built by the SLE_ macros from every         *)
(* combination of version arguments, checked against every file version.  *)
(***************************************************************************)

\* Version numbers written in descriptor tables.
WindowBounds == {0, 5, 10, 20}

\* Version numbers of files.
FileVersions == 0..MaxFileVersion \cup {SL_MAX_VERSION}

\* The version arguments a descriptor macro can be given.
MacroArgs ==
    [n : {2}, from : WindowBounds \cup {EMPTY}, to : WindowBounds \cup {EMPTY},
     lfrom : WindowBounds, lto : WindowBounds \cup {EMPTY}]
    \cup [n : {1}, from : WindowBounds, to : WindowBounds \cup {EMPTY},
          lfrom : {EMPTY}, lto : {EMPTY}]
    \cup [n : {0}, from : {EMPTY}, to : {EMPTY}, lfrom : {EMPTY}, lto : {EMPTY}]

\* The file versions probed: TTO and TTD files carry no version number.
ProbeVersions ==
    [type : {"SGT_OTTD", "SGT_FTTD"}, version : FileVersions]
    \cup [type : {"SGT_TTDP1", "SGT_TTDP2"}, version : {0, 5, SL_MAX_VERSION}]
    \cup [type : {"SGT_TTO", "SGT_TTD"}, version : {0}]

\* The SaveLoad the macros build: version windows and flags.
ProbeSaveLoad(a, flags) ==
    LET w == SLE_ANY_(a.n, a.from, a.to, a.lfrom, a.lto)
    IN  [version |-> w.version, legacy |-> w.legacy, flags |-> flags]

ProbeInit ==
    /\ h_args \in MacroArgs
    /\ \E flags \in {{}, {"SLF_NOT_IN_SAVE"}} : h_sld = ProbeSaveLoad(h_args, flags)
    /\ h_stv \in ProbeVersions
    /\ h_valid = "unknown"
    /\ h_pc = "start"
    /\ CodecIdle
    /\ LoadIdle

\* The call sld->is_valid(stv).
Check_is_valid ==
    /\ h_pc = "start"
    /\ h_valid' = is_valid(h_sld, h_stv)
    /\ h_pc' = "done"
    /\ UNCHANGED <<h_args, h_sld, h_stv>>
    /\ UNCHANGED c_vars
    /\ UNCHANGED l_vars

ProbeNext == Check_is_valid

SpecValid == ProbeInit /\ [][ProbeNext]_vars

Persisted == "SLF_NOT_IN_SAVE" \notin h_sld.flags

(***************************************************************************)
(* C6: for a persisted field with current-scheme window (from, to),        *)
(* is_valid on a current-format (SGT_FTTD) file of version v is true       *)
(* exactly when from <= v <= to, whatever the legacy-scheme window is.     *)
(***************************************************************************)
C6_WindowMonotone ==
    (h_pc = "done" /\ h_stv.type = "SGT_FTTD" /\ Persisted) =>
        (h_valid <=> (h_sld.version.from <= h_stv.version
                      /\ h_stv.version <= h_sld.version.to))

\* The window (10, 20) at its upper edge, with a legacy window that excludes
\* the same version number.
C6_Witness ==
    /\ h_pc = "done" /\ h_stv = [type |-> "SGT_FTTD", version |-> 20] /\ Persisted
    /\ h_sld.version = VersionRange(10, 20) /\ h_sld.legacy = VersionRange(0, 5)
    /\ h_valid = TRUE

(***************************************************************************)
(* C7 as stated: a descriptor with current-scheme from = 0 and legacy      *)
(* window (from = 5, to = 0) is valid for SGT_OTTD files exactly from      *)
(* version 5 onward, and for all SGT_FTTD files.                           *)
(***************************************************************************)
C7_Original ==
    (h_pc = "done" /\ Persisted
     /\ h_sld.version = VersionRange(0, SL_MAX_VERSION)
     /\ h_sld.legacy = VersionRange(5, 0)) =>
        /\ h_stv.type = "SGT_OTTD" => (h_valid <=> h_stv.version >= 5)
        /\ h_stv.type = "SGT_FTTD" => h_valid

(***************************************************************************)
(* C7 amended: a descriptor declared with from = 0, to empty, lfrom = 5    *)
(* and lto empty (an empty bound is stored as SL_MAX_VERSION; a stored     *)
(* upper bound of 0 is not unbounded) is valid for SGT_OTTD files exactly  *)
(* from version 5 onward and for all SGT_FTTD files; with a stored legacy  *)
(* upper bound of 0 it is valid for no SGT_OTTD file.                      *)
(***************************************************************************)
C7_LegacyCurrentIndependent ==
    (h_pc = "done" /\ Persisted /\ h_args.n = 2 /\ h_args.from = 0
     /\ h_args.to = EMPTY /\ h_args.lfrom = 5) =>
        /\ (h_stv.type = "SGT_FTTD") => h_valid
        /\ (h_stv.type = "SGT_OTTD" /\ h_args.lto = EMPTY) =>
               (h_valid <=> h_stv.version >= 5)
        /\ (h_stv.type = "SGT_OTTD" /\ h_args.lto = 0) => ~h_valid

\* Legacy version 5, the first one in which the descriptor is present.
C7_Witness ==
    /\ h_pc = "done" /\ Persisted
    /\ h_args = [n |-> 2, from |-> 0, to |-> EMPTY, lfrom |-> 5, lto |-> EMPTY]
    /\ h_stv = [type |-> "SGT_OTTD", version |-> 5]
    /\ h_valid = TRUE

C9_PredecessorFormat ==
    (h_pc = "done" /\ h_stv.type \in PredecessorTypes /\ Persisted) =>
        (h_valid <=> h_sld.legacy.from = 0)

\* A TTDPatch file whose version number lies outside both stored windows.
C9_Witness ==
    /\ h_pc = "done" /\ Persisted
    /\ h_stv = [type |-> "SGT_TTDP2", version |-> SL_MAX_VERSION]
    /\ h_sld.legacy = VersionRange(0, 5) /\ h_sld.version = VersionRange(10, 20)
    /\ h_valid = TRUE

(***************************************************************************)
(* Claims about a whole load: the references of the objects in the pools.  *)
(***************************************************************************)

\* The references a cargo list map holds.
PacketRefs(packets) ==
    UNION {{packets[m].val[j] : j \in DOMAIN packets[m].val} : m \in DOMAIN packets}

\* The references of a pooled object that every file version stores.
StoredRefs(o) ==
    CASE o.kind = "Station" ->
           {o.town, o.bus_stops, o.truck_stops}
           \cup {o.loading_vehicles[j] : j \in DOMAIN o.loading_vehicles}
           \cup UNION {PacketRefs(o.goods[i].cargo_packets) : i \in DOMAIN o.goods}
      [] o.kind = "Waypoint" -> {o.town}
      [] o.kind \in {"RoadStop", "Dock"} -> {o.next}
      [] OTHER -> {}

\* All references of a pooled object.
AllRefs(o) ==
    StoredRefs(o) \cup (IF o.kind = "Station" THEN {o.docks, o.airport_psa} ELSE {})

\* The objects in the pools.
Objects(ps) == {ps[p][i] : p \in DOMAIN ps, i \in Slots} \ {NoObj}

\* The stations in the pools.
Stations(ps) == {o \in Objects(ps) : o.kind = "Station"}

\* The raw-load pass: from the first load callback to the first fixup callback.
RawLoadPass == phase = "FormatIdentified" \/ (phase = "ChunksRawLoaded" /\ pos = 0)

\* The load has passed the fixup phase.
Resolved == phase \in {"PointersResolved", "PostLoadMigrationsApplied", "Ready"}

\* The file at hand was written in the current format.
CurrentFile == savegame.stv = CurrentVersion

(***************************************************************************)
(* C1: round trip.  Saving any game of stations, waypoints, road stops and *)
(* docks (with goods entries, flows, cargo-packet lists and chains of      *)
(* references) in the current format and loading the file (raw load, then  *)
(* pointer fixup) never fails and reproduces the same pools: the same      *)
(* indices, field values and resolved references.                          *)
(***************************************************************************)
C1_RoundTrip ==
    CurrentFile =>
        /\ phase \notin {"Corrupt", "Aborted"}
        /\ Resolved => pools = saved

\* A loaded game whose first station has a flow of two shares, two cargo
\* lists, a chain of two road stops and a dock.
C1_Witness ==
    /\ CurrentFile /\ phase = "Ready" /\ pools = saved
    /\ pools.stations[0] # NoObj /\ pools.stations[0].kind = "Station"
    /\ Len(pools.stations[0].goods[1].flows) = 2
    /\ Len(pools.stations[0].goods[1].flows[1].val.shares) = 2
    /\ Len(pools.stations[0].goods[1].cargo_packets) = 2
    /\ pools.stations[0].bus_stops = Ptr("roadstops", 0)
    /\ pools.roadstops[0].next = Ptr("roadstops", 1)
    /\ pools.stations[0].docks = Ptr("docks", 1)

PhaseOrder ==
    <<"Unopened", "FormatIdentified", "ChunksRawLoaded", "PointersResolved",
      "PostLoadMigrationsApplied", "Ready">>

\* The load callbacks of all chunks of the file, in file order.
AllLoads == [i \in 1..Len(savegame.chunks) |-> <<"Load", savegame.chunks[i].tag>>]

\* The fixup callbacks of all chunk handlers, in table order.
AllPtrs ==
    [i \in 1..Len(_station_chunk_handlers) |-> <<"Ptrs", _station_chunk_handlers[i]>>]

\* The callbacks run so far are passes in order: load callbacks only during
\* the raw load, all of them before the first fixup callback, and both
\* passes complete once the references are resolved.
PassesInOrder ==
    /\ phase = "FormatIdentified" => log = SubSeq(AllLoads, 1, Len(log))
    /\ phase = "ChunksRawLoaded" =>
           /\ Len(log) >= Len(AllLoads)
           /\ log = AllLoads \o SubSeq(AllPtrs, 1, Len(log) - Len(AllLoads))
    /\ Resolved => log = AllLoads \o AllPtrs

\* What the reference fields hold during the raw-load pass: the stored ID
\* where the file stores the field; else what the constructor left, but for
\* the persistent storage Load_STNN allocates for the airport of a legacy
\* file.
RawDuringLoad ==
    RawLoadPass =>
        /\ \A o \in Objects(pools) : \A r \in StoredRefs(o) : r.k = "raw"
        /\ \A st \in Stations(pools) :
               IF CurrentFile
               THEN st.docks.k = "raw" /\ st.airport_psa.k = "raw"
               ELSE /\ st.docks = NullPtr
                    /\ IF (st.facilities \div FACIL_AIRPORT) % 2 = 1
                       THEN /\ st.airport_psa.k = "ptr"
                            /\ st.airport_psa.pool = "storages"
                            /\ pools.storages[st.airport_psa.idx] # NoObj
                       ELSE st.airport_psa = NullPtr

Handle(raw, pool) ==
    IF raw.id = INVALID_ID THEN NullPtr ELSE Ptr(pool, raw.id)

\* The reference was resolved by this step, and rightly.
ResolvedTo(ps, old, new, pool) ==
    (old.k = "raw" /\ new.k # "raw") =>
        /\ new = Handle(old, pool)
        /\ new # NullPtr => (new.idx = old.id /\ ps[pool][old.id] # NoObj)

(***************************************************************************)
(* C4: in the fixup phase a stored reference ID equal to the invalid       *)
(* sentinel resolves to "no object", never to the object in slot 0; every  *)
(* other stored ID N resolves to the object allocated at index N of the    *)
(* pool the field's reference kind names.                                  *)
(***************************************************************************)
C4_SentinelAndIndex ==
    [][phase = "ChunksRawLoaded" =>
          /\ \A i \in Slots :
                 (pools.docks[i] # NoObj /\ pools'.docks[i] # NoObj) =>
                     ResolvedTo(pools', pools.docks[i].next, pools'.docks[i].next,
                                "docks")
          /\ \A i \in Slots :
                 (pools.roadstops[i] # NoObj /\ pools'.roadstops[i] # NoObj) =>
                     ResolvedTo(pools', pools.roadstops[i].next,
                                pools'.roadstops[i].next, "roadstops")
          /\ \A i \in Slots :
                 (pools.stations[i] # NoObj /\ pools'.stations[i] # NoObj) =>
                     /\ ResolvedTo(pools', pools.stations[i].town,
                                   pools'.stations[i].town, "towns")
                     /\ pools.stations[i].kind = "Station" =>
                            /\ ResolvedTo(pools', pools.stations[i].bus_stops,
                                          pools'.stations[i].bus_stops, "roadstops")
                            /\ ResolvedTo(pools', pools.stations[i].truck_stops,
                                          pools'.stations[i].truck_stops, "roadstops")
                            /\ ResolvedTo(pools', pools.stations[i].docks,
                                          pools'.stations[i].docks, "docks")
                            /\ ResolvedTo(pools', pools.stations[i].airport_psa,
                                          pools'.stations[i].airport_psa, "storages")
          /\ (phase' = "PointersResolved") =>
                 \A o \in Objects(pools') : \A r \in AllRefs(o) : r.k \in {"null", "ptr"}]_vars

\* The file stores the sentinel as next dock of the dock in slot 0 and ID 0
\* as next dock of the dock in slot 1: after the fixup dock 1 refers to
\* dock 0 and dock 0 to no object.
C4_Witness ==
    /\ CurrentFile /\ phase = "PointersResolved"
    /\ savegame.chunks[5].tag = "DOCK"
    /\ Len(savegame.chunks[5].elems) = 2
    /\ Len(savegame.chunks[5].elems[1]) = 8 /\ Len(savegame.chunks[5].elems[2]) = 8
    /\ SubSeq(savegame.chunks[5].elems[1], 5, 8) = ToBytes(INVALID_ID, SlRefLen)
    /\ SubSeq(savegame.chunks[5].elems[2], 5, 8) = <<0, 0, 0, 0>>
    /\ pools.docks[0] # NoObj /\ pools.docks[0].next = NullPtr
    /\ pools.docks[1] # NoObj /\ pools.docks[1].next = Ptr("docks", 0)

\* The references of a pooled object, field by field.
RefVector(o) ==
    CASE o.kind = "Station" ->
           <<o.town, o.bus_stops, o.truck_stops, o.docks, o.airport_psa,
             o.loading_vehicles, [i \in DOMAIN o.goods |-> o.goods[i].cargo_packets]>>
      [] o.kind = "Waypoint" -> <<o.town>>
      [] o.kind \in {"RoadStop", "Dock"} -> <<o.next>>
      [] OTHER -> <<>>

\* The reference is a live handle, or refers to no object.
LiveHandle(ps, r) == r = NullPtr \/ (r.k = "ptr" /\ ps[r.pool][r.idx] # NoObj)

(***************************************************************************)
(* C3: reference resolution is independent of chunk order.  Whichever      *)
(* chunk is physically first in the file, and whether a road stop or dock  *)
(* refers to a higher or a lower index of its own chunk, the load succeeds *)
(* and after the fixup phase every reference of every station, road stop   *)
(* and dock is a live handle to the object it referred to when saved.      *)
(***************************************************************************)
C3_OrderIndependent ==
    CurrentFile =>
        /\ phase \notin {"Corrupt", "Aborted"}
        /\ Resolved =>
               \A p \in {"stations", "roadstops", "docks"} : \A i \in Slots :
                   /\ (pools[p][i] = NoObj) = (saved[p][i] = NoObj)
                   /\ saved[p][i] # NoObj =>
                          /\ RefVector(pools[p][i]) = RefVector(saved[p][i])
                          /\ \A r \in AllRefs(pools[p][i]) : LiveHandle(pools, r)

\* The file was read back to front (docks before road stops before
\* stations before towns); road stop 0 refers to the higher index 1, dock 1
\* to the lower index 0, and the station to both chains.
C3_Witness ==
    /\ CurrentFile /\ phase = "PointersResolved"
    /\ savegame.chunks[1].tag = "PSAS" /\ savegame.chunks[3].tag = "DOCK"
    /\ savegame.chunks[5].tag = "STNN"
    /\ pools.stations[0].bus_stops = Ptr("roadstops", 0)
    /\ pools.roadstops[0].next = Ptr("roadstops", 1)
    /\ pools.stations[0].docks = Ptr("docks", 1)
    /\ pools.docks[1].next = Ptr("docks", 0)

\* The pool a chunk fills.
PoolOfTag(tag) ==
    CASE tag = "VEHS" -> "vehicles" [] tag = "CITY" -> "towns"
      [] tag = "STNN" -> "stations" [] tag = "ROAD" -> "roadstops"
      [] tag = "DOCK" -> "docks" [] tag = "CAPA" -> "cargopackets"
      [] tag = "PSAS" -> "storages"

\* The pools hold every element of every chunk of the file.
NothingMissing ==
    \A c \in 1..Len(savegame.chunks) :
        \A e \in 1..Len(savegame.chunks[c].elems) :
            savegame.chunks[c].elems[e] # <<>> =>
                /\ e - 1 \in Slots
                /\ pools[PoolOfTag(savegame.chunks[c].tag)][e - 1] # NoObj

\* The error state: empty pools and one error, which names the chunk and
\* the element unless the format itself was not recognised.
StructuredError ==
    /\ pools = EmptyPools
    /\ \/ err.what = "format"
       \/ /\ err.tag \in {savegame.chunks[c].tag : c \in 1..Len(savegame.chunks)}
                         \cup {"STNS"}
          /\ err.index \in 0..PoolSize

(***************************************************************************)
(* C5: every fatal load condition (unrecognized format, bytes misaligned   *)
(* with the schema, reference ID out of range, pool allocation exhausted)  *)
(* ends the load in the error state, with a single structured error naming *)
(* the chunk tag and element index and no pools; a load that does not fail *)
(* hands over every object of the file.  In particular a load never ends   *)
(* anywhere else when the pool of persistent storages is exhausted while   *)
(* loading the stations of a legacy file.                                  *)
(***************************************************************************)
C5_StructuredError ==
    /\ phase # "Aborted"
    /\ phase = "Corrupt" => StructuredError
    /\ phase = "Ready" => NothingMissing

\* What holds of the damaged files: a load that does not die in an
\* assertion ends in the error state or hands over every object.
C5_ButForAssertions ==
    /\ phase = "Corrupt" => StructuredError
    /\ phase = "Ready" => NothingMissing
    /\ phase = "Aborted" =>
           /\ savegame.stv = LegacyVersion
           /\ ~CanAllocateItem(pools.storages)

(***************************************************************************)
(* Codec probe: Length, Write and Read of one object under one descriptor  *)
(* table and one file version, for the tables of station_sl.cpp and every  *)
(* version at which one of their windows opens or closes.                  *)
(***************************************************************************)

\* Legacy versions above MaxFileVersion at which a window of the tables
\* opens or closes, with their neighbours.
LegacyBounds ==
    {24, 25, 26, 27, 30, 31, 44, 45, 46, 47, 50, 51, 56, 57, 64, 65, 66, 67, 68,
     83, 84, 102, 103, 121, 122, 123, 124, 126, 127, 139, 140, 144, 145, 150, 160,
     161, 180, 181, 182, 183, 186, 187, 194}

\* The file versions probed.
CodecVersions ==
    [type : {"SGT_FTTD"}, version : 0..MaxFileVersion, minor_version : {0}]
    \cup [type : {"SGT_OTTD"}, version : 0..MaxFileVersion \cup LegacyBounds,
          minor_version : {0}]
    \cup [type : {"SGT_TTDP2"}, version : {0}, minor_version : {0}]

\* _roadstop_desc with the status kept out of savegames (SLF_NOT_IN_SAVE).
_roadstop_desc_not_in_save == <<
    SLE_VAR("xy", SLE_UINT32, V0),
    SaveLoad("SL_VAR", SLE_UINT8, {"SLF_NOT_IN_SAVE"}, 0, V0, "status"),
    SLE_REF("next", "REF_ROADSTOPS", V0),
    SLE_END >>

\* The staging globals as a save fills them.
CodecGlobals ==
    [_waiting_acceptance |-> 3, _num_flows |-> 2, _cargo_source |-> 300,
     _cargo_source_xy |-> 77, _cargo_days |-> 2, _cargo_feeder_share |-> 9,
     _packets |-> <<Ptr("cargopackets", 0)>>, _num_dests |-> 1,
     _old_st_persistent_storage |-> [i \in 1..OldStorageWords |-> i]]

\* The stations probed: without road stops and docks, and with a chain
\* through all slots.
CodecStations ==
    {SceneStation(0, TRUE, c, v) : c \in {<<>>, [i \in 1..PoolSize |-> i - 1]},
                                    v \in Variants}

\* A probe of table sld: an object and the memory Read reads into.
CodecCase(sld, obj, blank) ==
    [sld |-> sld, obj |-> obj, glob |-> CodecGlobals,
     blank |-> blank, blank_glob |-> InitGlobals]

\* The objects probed, each with the table of its kind.
CodecCases ==
    {CodecCase(_station_desc, st, NewStation) : st \in CodecStations}
    \cup {CodecCase(_old_station_desc, st, NewStation) : st \in CodecStations}
    \cup {CodecCase(_waypoint_desc, SceneWaypoint(1, v), NewWaypoint) : v \in Variants}
    \cup {CodecCase(GetGoodsDesc, SceneGoods(t), NewGoodsEntry) : t \in Variants}
    \cup {CodecCase(_flow_desc, f, NewFlowSaveLoad) :
             f \in {[source |-> 1, via |-> INVALID_STATION, share |-> 3,
                     restricted |-> r] : r \in BOOLEAN}}
    \cup {CodecCase(_cargo_list_desc, [first |-> 1, second |-> l], NewStationCargoPair) :
             l \in {<<>>, <<Ptr("cargopackets", 1), Ptr("cargopackets", 0)>>}}
    \cup {CodecCase(_station_speclist_desc, [grfid |-> 1000, localidx |-> 1],
                    NewSpecList)}
    \cup {CodecCase(sld, [kind |-> "RoadStop", xy |-> 21, status |-> 3, next |-> n],
                    NewRoadStop) :
             sld \in {_roadstop_desc, _roadstop_desc_not_in_save},
             n \in {NullPtr, Ptr("roadstops", 0)}}
    \cup {CodecCase(_dock_desc, [kind |-> "Dock", xy |-> 41, next |-> n], NewDock) :
             n \in {NullPtr, Ptr("docks", PoolSize - 1)}}

CodecInit ==
    /\ ValidIdle
    /\ LoadIdle
    /\ \E c \in CodecCases, stv \in CodecVersions :
           c_case = [sld |-> c.sld, obj |-> c.obj, glob |-> c.glob, blank |-> c.blank,
                     blank_glob |-> c.blank_glob, stv |-> stv]
    /\ c_out = 0
    /\ c_pc = "start"

\* SlCalcObjLength(object, sld)
Codec_Length ==
    /\ c_pc = "start"
    /\ c_out' = [length |-> SlCalcObjLength(c_case.obj, c_case.glob, c_case.sld,
                                            c_case.stv)]
    /\ c_pc' = "measured"
    /\ UNCHANGED c_case

\* dumper->WriteObject(object, sld)
Codec_Write ==
    /\ c_pc = "measured"
    /\ c_out' = [length |-> c_out.length,
                  bytes |-> WriteObject(c_case.obj, c_case.glob, c_case.sld, c_case.stv)]
    /\ c_pc' = "written"
    /\ UNCHANGED c_case

\* reader->ReadObject(object, sld) on the bytes written; as Load_STNN does
\* (line 632), the caller reads the constant byte at the head of a table
\* itself.
Codec_Read ==
    /\ c_pc = "written"
    /\ LET skip == IF c_case.sld[1].type = "SL_WRITEBYTE" /\ Len(c_out.bytes) > 0
                   THEN 1 ELSE 0
           r == ReadObject([buf |-> Drop(c_out.bytes, skip), glob |-> c_case.blank_glob,
                            ok |-> TRUE],
                           c_case.blank, c_case.sld, c_case.stv)
       IN  c_out' = [length |-> c_out.length, bytes |-> c_out.bytes,
                     skipped |-> skip,
                     consumed |-> Len(c_out.bytes) - skip - Len(r.buf),
                     obj |-> r.obj, glob |-> r.glob, ok |-> r.ok]
    /\ c_pc' = "read"
    /\ UNCHANGED c_case

CodecNext ==
    \/ (Codec_Length /\ UNCHANGED <<h_args, h_sld, h_stv, h_valid, h_pc>> /\ UNCHANGED l_vars)
    \/ (Codec_Write /\ UNCHANGED <<h_args, h_sld, h_stv, h_valid, h_pc>> /\ UNCHANGED l_vars)
    \/ (Codec_Read /\ UNCHANGED <<h_args, h_sld, h_stv, h_valid, h_pc>> /\ UNCHANGED l_vars)

SpecCodec == CodecInit /\ [][CodecNext]_vars

\* The rows of a table, the rows of included tables in their place.
RECURSIVE Flat(_)
Flat(sld) ==
    IF sld[1].type = "SL_END" THEN <<>>
    ELSE (IF sld[1].type = "SL_INCLUDE" THEN Flat(sld[1].address) ELSE <<sld[1]>>)
         \o Flat(Tail(sld))

\* The row is within its window for the file version: the current-scheme
\* window for a current-format file, the legacy one for a legacy file, a
\* legacy window that starts at zero for an older format.
InWindow(d, stv) ==
    CASE stv.type = "SGT_FTTD" ->
           d.version.from <= stv.version /\ stv.version <= d.version.to
      [] stv.type = "SGT_OTTD" ->
           d.legacy.from <= stv.version /\ stv.version <= d.legacy.to
      [] OTHER -> d.legacy.from = 0

\* The row takes part in Length, Write and Read.
TakesPart(d, stv) == InWindow(d, stv) /\ "SLF_NOT_IN_SAVE" \notin d.flags

\* The bytes of the rows that take part.
RECURSIVE BytesOf(_, _)
BytesOf(rows, n) ==
    IF n = 0 THEN 0
    ELSE BytesOf(rows, n - 1)
         + (IF TakesPart(rows[n], c_case.stv)
            THEN SlCalcFieldLength(rows[n], c_case.obj, c_case.glob) ELSE 0)

\* The constant bytes among them, which Read does not consume.
ConstantBytes(rows) ==
    Cardinality({n \in DOMAIN rows :
                    rows[n].type = "SL_WRITEBYTE" /\ TakesPart(rows[n], c_case.stv)})

\* The variables of the table that no row that takes part stores.
Untouched(rows) ==
    {[address |-> rows[n].address, global |-> "SLF_GLOBAL" \in rows[n].flags] :
        n \in {n \in DOMAIN rows : rows[n].type \notin {"SL_NULL", "SL_WRITEBYTE"}}}
    \ {[address |-> rows[n].address, global |-> "SLF_GLOBAL" \in rows[n].flags] :
          n \in {n \in DOMAIN rows : TakesPart(rows[n], c_case.stv)}}

\* Read left the variable as it was.
Unchanged(a) ==
    IF a.global THEN c_out.glob[a.address] = c_case.blank_glob[a.address]
    ELSE c_out.obj[a.address] = c_case.blank[a.address]

(***************************************************************************)
(* C10 as stated: the computed Length equals the number of bytes Write     *)
(* appends and the number of bytes Read consumes.                          *)
(***************************************************************************)
C10_Original ==
    c_pc = "read" =>
        /\ Len(c_out.bytes) = c_out.length
        /\ c_out.consumed = c_out.length

(***************************************************************************)
(* C10 amended: for every table, object and file version a row takes part  *)
(* in Length, Write and Read exactly when it is within its window for the  *)
(* file version and not flagged SLF_NOT_IN_SAVE; every other row           *)
(* contributes zero bytes and Read leaves its variable unchanged.  Length  *)
(* equals the number of bytes Write appends; Read consumes these bytes but *)
(* for the constant byte of each SL_WRITEBYTE row that takes part, which   *)
(* the caller of Read reads itself.                                        *)
(***************************************************************************)
C10_ValidRowsOnly ==
    LET rows == Flat(c_case.sld) IN
    /\ c_pc \in {"measured", "written", "read"} =>
           c_out.length = BytesOf(rows, Len(rows))
    /\ c_pc \in {"written", "read"} => Len(c_out.bytes) = c_out.length
    /\ c_pc = "read" =>
           /\ c_out.ok
           /\ c_out.consumed = c_out.length - ConstantBytes(rows)
           /\ c_out.skipped = ConstantBytes(rows)
           /\ \A a \in Untouched(rows) : Unchanged(a)

\* A station with docks and an airport, read from the bytes of a legacy
\* file of version 150: the docks and the storage reference take no part,
\* the old storage words do.
C10_Witness ==
    /\ c_pc = "read" /\ c_case.sld = _station_desc
    /\ c_case.stv = LegacyVersion
    /\ c_case.obj.docks # NullPtr /\ c_out.obj.docks = NullPtr
    /\ c_case.obj.airport_psa # NullPtr /\ c_out.obj.airport_psa = NullPtr
    /\ c_out.glob._old_st_persistent_storage = CodecGlobals._old_st_persistent_storage
    /\ c_out.obj.bus_stops = RawID(0)
    /\ c_out.consumed = c_out.length - 1

(***************************************************************************)
(* Indexed chunks: an array chunk gives every element its index; an        *)
(* element header of length zero stands for an index without an object.    *)
(* The load callbacks of the road stops and docks are run on chunks with   *)
(* every pattern of gaps.                                                   *)
(***************************************************************************)

\* The probes leave the version probe and the load machine alone.
ProbeFrame == UNCHANGED <<h_args, h_sld, h_stv, h_valid, h_pc>> /\ UNCHANGED l_vars

\* The indices of a chunk: one more than the stations' worlds use.
GapSlots == 0..PoolSize

\* Empty pools of that size.
GapPools == [p \in DOMAIN EmptyPools |-> [i \in GapSlots |-> NoObj]]

\* The objects a chunk element may hold, per pool.
GapObjects(pool) ==
    IF pool = "docks"
    THEN {[kind |-> "Dock", xy |-> xy, next |-> n] :
             xy \in {41, 42}, n \in {NullPtr, Ptr("docks", 0)}}
    ELSE {[kind |-> "RoadStop", xy |-> 21, status |-> s, next |-> n] :
             s \in {0, 3}, n \in {NullPtr, Ptr("roadstops", PoolSize)}}

\* The chunk the save callback writes for a pool.
GapChunk(pool, objs) ==
    IF pool = "docks"
    THEN Save_DOCKS([GapPools EXCEPT !.docks = objs], InitGlobals, CurrentVersion)
    ELSE Save_ROADSTOP([GapPools EXCEPT !.roadstops = objs], InitGlobals, CurrentVersion)

GapInit ==
    /\ ValidIdle
    /\ LoadIdle
    /\ \E pool \in {"docks", "roadstops"} :
           \E objs \in [GapSlots -> GapObjects(pool) \cup {NoObj}] :
               c_case = [pool |-> pool, objs |-> objs, elems |-> GapChunk(pool, objs)]
    /\ c_out = 0
    /\ c_pc = "start"

\* Load_DOCKS on the chunk.
Gap_Load_DOCKS ==
    /\ c_pc = "start"
    /\ c_case.pool = "docks"
    /\ c_out' = Load_DOCKS(Loader(GapPools, InitGlobals), c_case.elems, CurrentVersion)
    /\ c_pc' = "loaded"
    /\ UNCHANGED c_case

\* Load_ROADSTOP on the chunk.
Gap_Load_ROADSTOP ==
    /\ c_pc = "start"
    /\ c_case.pool = "roadstops"
    /\ c_out' = Load_ROADSTOP(Loader(GapPools, InitGlobals), c_case.elems, CurrentVersion)
    /\ c_pc' = "loaded"
    /\ UNCHANGED c_case

GapNext ==
    \/ (Gap_Load_DOCKS /\ ProbeFrame)
    \/ (Gap_Load_ROADSTOP /\ ProbeFrame)

SpecGap == GapInit /\ [][GapNext]_vars

\* The lengths in the element headers of the chunk.
HeaderLengths == [i \in 1..Len(c_case.elems) |-> Len(c_case.elems[i])]

\* The length in the header of index i; the chunk ends with its last object.
HeaderLength(i) == IF i < Len(c_case.elems) THEN HeaderLengths[i + 1] ELSE 0

\* The object at index i is the one the element of that index holds, its
\* reference still the stored ID.
LoadedAt(i) ==
    LET o == c_out.ps[c_case.pool][i]
        w == c_case.objs[i]
    IN  /\ o # NoObj
        /\ o.kind = w.kind /\ o.xy = w.xy
        /\ o.next = RawID(ReferenceToInt(w.next))
        /\ c_case.pool = "roadstops" => o.status = w.status

(***************************************************************************)
(* C11: every element of an indexed chunk is allocated at the index the    *)
(* file gives it and an element header of length zero allocates nothing:   *)
(* the live objects after the load callback are exactly those of the       *)
(* nonempty elements, each at its own index, so headers of lengths 8, 0, 8 *)
(* give two objects, at indices 0 and 2, and leave index 1 free.           *)
(***************************************************************************)
C11_GapPreserved ==
    c_pc = "loaded" =>
        /\ c_out.ok
        /\ \A i \in GapSlots :
               IF HeaderLength(i) = 0
               THEN c_out.ps[c_case.pool][i] = NoObj
               ELSE LoadedAt(i)
        /\ Cardinality({i \in GapSlots : c_out.ps[c_case.pool][i] # NoObj})
               = Cardinality({i \in GapSlots : HeaderLength(i) # 0})
        /\ \A p \in DOMAIN GapPools \ {c_case.pool} : c_out.ps[p] = GapPools[p]

C11_Witness ==
    /\ c_pc = "loaded"
    /\ c_case.pool = "docks"
    /\ HeaderLengths = <<8, 0, 8>>
    /\ c_out.ps.docks[0] # NoObj /\ c_out.ps.docks[0].xy = 41
    /\ c_out.ps.docks[1] = NoObj
    /\ c_out.ps.docks[2] # NoObj /\ c_out.ps.docks[2].xy = 42
    /\ Cardinality({i \in GapSlots : c_out.ps.docks[i] # NoObj}) = 2

(***************************************************************************)
(* The flows of a goods entry.  A station whose goods entry holds a flow   *)
(* map is written as an element of the STNN chunk, the element is read     *)
(* back, and the station read is written again.                            *)
(***************************************************************************)

\* The cumulative share keys and the via stations of the flow maps.
FlowShareKeys == {10, 25, 26}
FlowVias == {3, 7}

\* The keys of a set in ascending order, as std::map iterates them.
KeySeq(K) ==
    CHOOSE s \in [1..Cardinality(K) -> K] : \A i, j \in 1..Cardinality(K) : i < j => s[i] < s[j]

\* The FlowStats over a set of keys: the shares up to the unrestricted
\* boundary come first, the restricted ones after them.
FlowStatsOver(K) ==
    {[shares |-> [k \in 1..Cardinality(K) |-> [key |-> KeySeq(K)[k], val |-> via[KeySeq(K)[k]]]],
      unrestricted |-> u] : via \in [K -> FlowVias], u \in {0} \cup K}

FlowStats == UNION {FlowStatsOver(K) : K \in (SUBSET FlowShareKeys) \ {{}}}

\* The flow maps: source 0 with any FlowStat, the source with the ID of
\* "no station" with a FlowStat of one share, either of them absent.
FlowMaps ==
    {[k \in 1..Len(a) |-> [key |-> 0, val |-> a[k]]]
        \o [k \in 1..Len(b) |-> [key |-> INVALID_STATION, val |-> b[k]]] :
     a \in {<<s>> : s \in FlowStats} \cup {<<>>},
     b \in {<<s>> : s \in {x \in FlowStats : Len(x.shares) = 1}} \cup {<<>>}}

\* The station of a case: only the goods entry of the cargo has flows.
FlowStation(cargo, flows) ==
    [NewStation EXCEPT !.xy = 33, !.facilities = 16, !.goods[cargo].flows = flows]

\* The FlowSaveLoad tuples in the element bytes of a station of a case: the
\* goods entries after the cargo have neither flows nor packets.
WrittenFlows(bytes, cargo, n) ==
    LET L == SlCalcObjLength(NewFlowSaveLoad, InitGlobals, _flow_desc, CurrentVersion)
        G == SlCalcObjLength(NewGoodsEntry, InitGlobals, GetGoodsDesc, CurrentVersion)
        end == Len(bytes) - (NUM_CARGO - cargo) * G
    IN  [k \in 1..n |->
            ReadObject([buf |-> SubSeq(bytes, end - (n - k + 1) * L + 1, end - (n - k) * L),
                        glob |-> InitGlobals, ok |-> TRUE],
                       NewFlowSaveLoad, _flow_desc, CurrentVersion).obj]

\* What a save leaves: the element and the flow tuples in it.
FlowSaved(st, cargo) ==
    LET Dumped(dp) ==
            [bytes |-> dp.bytes,
             written |-> WrittenFlows(dp.bytes, cargo,
                                      NumFlows(st.goods[cargo].flows,
                                               Len(st.goods[cargo].flows)))]
    IN  Dumped(SaveBaseStation(st, InitGlobals, CurrentVersion))

FlowInit ==
    /\ ValidIdle
    /\ LoadIdle
    /\ \E cargo \in 1..NUM_CARGO, flows \in FlowMaps :
           c_case = [cargo |-> cargo, flows |-> flows, st |-> FlowStation(cargo, flows)]
    /\ c_out = [bytes |-> <<>>, written |-> <<>>, ld |-> 0, again |-> <<>>]
    /\ c_pc = "start"

\* Save_STNN on the station.
Flow_Save_STNN ==
    /\ c_pc = "start"
    /\ \E s \in {FlowSaved(c_case.st, c_case.cargo)} :
           c_out' = [c_out EXCEPT !.bytes = s.bytes, !.written = s.written]
    /\ c_pc' = "saved"
    /\ UNCHANGED c_case

\* Load_STNN on the element.
Flow_Load_STNN ==
    /\ c_pc = "saved"
    /\ c_out' = [c_out EXCEPT
                    !.ld = Load_STNN(Loader(EmptyPools, InitGlobals), <<c_out.bytes>>,
                                     CurrentVersion)]
    /\ c_pc' = "loaded"
    /\ UNCHANGED c_case

\* Save_STNN on the station that was loaded.
Flow_Save_again ==
    /\ c_pc = "loaded"
    /\ c_out.ld.ok /\ ~c_out.ld.aborted
    /\ c_out' = [c_out EXCEPT
                    !.again = FlowSaved(c_out.ld.ps.stations[0], c_case.cargo).written]
    /\ c_pc' = "resaved"
    /\ UNCHANGED c_case

FlowNext ==
    \/ (Flow_Save_STNN /\ ProbeFrame)
    \/ (Flow_Load_STNN /\ ProbeFrame)
    \/ (Flow_Save_again /\ ProbeFrame)

SpecFlow == FlowInit /\ [][FlowNext]_vars

\* The flow map of the cargo's goods entry after the load.
LoadedFlows == c_out.ld.ps.stations[0].goods[c_case.cargo].flows

\* A share is restricted when its key lies above the unrestricted boundary.
IsRestricted(stat, k) == stat.shares[k].key > stat.unrestricted

\* The tuple written for share k of the m-th source of the case.
WrittenFor(m, k) == c_out.written[NumFlows(c_case.flows, m - 1) + k]

(***************************************************************************)
(* C12: Save_STNN writes the shares of every source as increments in       *)
(* ascending cumulative order (the cumulative keys 10 and 25 as the        *)
(* increments 10 and 15), and Load_STNN rebuilds a flow map with the same  *)
(* sources, the same cumulative keys, the same via stations in the same    *)
(* order and the same restricted flags.                                    *)
(***************************************************************************)
C12_FlowsRebuilt ==
    c_pc \in {"loaded", "resaved"} =>
        /\ c_out.ld.ok /\ ~c_out.ld.aborted
        /\ Len(c_out.written) = NumFlows(c_case.flows, Len(c_case.flows))
        /\ \A m \in 1..Len(c_case.flows) :
               \A k \in 1..Len(c_case.flows[m].val.shares) :
                   LET sh == c_case.flows[m].val.shares IN
                   /\ WrittenFor(m, k).source = c_case.flows[m].key
                   /\ WrittenFor(m, k).via = sh[k].val
                   /\ WrittenFor(m, k).share = sh[k].key - (IF k = 1 THEN 0 ELSE sh[k - 1].key)
                   /\ WrittenFor(m, k).restricted = IsRestricted(c_case.flows[m].val, k)
        /\ Len(LoadedFlows) = Len(c_case.flows)
        /\ \A m \in 1..Len(c_case.flows) :
               /\ LoadedFlows[m].key = c_case.flows[m].key
               /\ LoadedFlows[m].val.shares = c_case.flows[m].val.shares
               /\ \A k \in 1..Len(c_case.flows[m].val.shares) :
                      IsRestricted(LoadedFlows[m].val, k) = IsRestricted(c_case.flows[m].val, k)

C12_Witness ==
    /\ c_pc = "loaded"
    /\ Len(c_case.flows) = 2
    /\ c_case.flows[1].val.shares = <<[key |-> 10, val |-> 3], [key |-> 25, val |-> 7]>>
    /\ c_case.flows[1].val.unrestricted = 10
    /\ c_out.written[1].share = 10 /\ c_out.written[2].share = 15
    /\ ~c_out.written[1].restricted /\ c_out.written[2].restricted
    /\ LoadedFlows[1].val.shares = <<[key |-> 10, val |-> 3], [key |-> 25, val |-> 7]>>
    /\ LoadedFlows[2].key = INVALID_STATION

\* The sum of the shares of the first n tuples that name the source.
RECURSIVE SumShares(_, _, _)
SumShares(tuples, source, n) ==
    IF n = 0 THEN 0
    ELSE SumShares(tuples, source, n - 1)
             + (IF tuples[n].source = source THEN tuples[n].share ELSE 0)

\* The tuples are increments above zero that sum to the largest key of
\* every source of the flow map.
PositivePartialSums(tuples, flows) ==
    /\ \A n \in 1..Len(tuples) : tuples[n].share > 0
    /\ \A m \in 1..Len(flows) :
           SumShares(tuples, flows[m].key, Len(tuples))
               = flows[m].val.shares[Len(flows[m].val.shares)].key

(***************************************************************************)
(* C13: every share Save_STNN writes is an increment above zero, for the   *)
(* flow maps of the game and for those a load has rebuilt, and for every   *)
(* source the increments written sum to the largest cumulative key of the  *)
(* source.                                                                 *)
(***************************************************************************)
C13_SharesPositive ==
    /\ c_pc # "start" => PositivePartialSums(c_out.written, c_case.flows)
    /\ c_pc = "resaved" => PositivePartialSums(c_out.again, LoadedFlows)

C13_Witness ==
    /\ c_pc = "resaved"
    /\ Len(c_case.flows) = 1
    /\ Len(c_case.flows[1].val.shares) = 3
    /\ [n \in 1..3 |-> c_out.written[n].share] = <<10, 15, 1>>
    /\ [n \in 1..3 |-> c_out.again[n].share] = <<10, 15, 1>>
    /\ SumShares(c_out.again, 0, 3) = 26

(***************************************************************************)
(* Scalar conversions.  A scalar of every pair of a file type and a memory *)
(* type is read from its bytes in the file.                                *)
(***************************************************************************)

\* The file types of one, two and four bytes and the numeric memory types.
ConvFileTypes == {"I8", "U8", "I16", "U16", "I32", "U32"}
ConvMemTypes == {"I8", "U8", "I16", "U16", "I32", "U32", "I64", "U64"}

\* The byte values at the ends of a file value, and those in its middle.
EdgeBytes == {0, 1, 127, 128, 255}
FillBytes == {0, 255}

\* The file images of a width, most significant byte first.
FileImages(n) ==
    IF n = 1 THEN {<<b>> : b \in EdgeBytes}
    ELSE IF n = 2 THEN {<<a, b>> : a \in EdgeBytes, b \in EdgeBytes}
    ELSE {<<a, m, n2, b>> : a \in EdgeBytes, m \in FillBytes, n2 \in FillBytes, b \in EdgeBytes}

\* The numbers of the model have 32 bits and a sign: a file value of four
\* bytes with its top bit set has no zero-extended number.
HasNumber(bs, conv) == ~(Len(bs) = 4 /\ bs[1] >= 128 /\ ~MemSigned(conv))

ConvInit ==
    /\ ValidIdle
    /\ LoadIdle
    /\ \E f \in ConvFileTypes, m \in ConvMemTypes :
           \E bs \in FileImages(SlCalcConvFileLen(Conv(f, m))) :
               /\ HasNumber(bs, Conv(f, m))
               /\ c_case = [conv |-> Conv(f, m), bytes |-> bs]
    /\ c_out = 0
    /\ c_pc = "start"

\* A scalar wider in memory than in the file is read.
Conv_Read_wider ==
    /\ c_pc = "start"
    /\ SlCalcConvMemLen(c_case.conv) > SlCalcConvFileLen(c_case.conv)
    /\ c_out' = SlReadConv(c_case.bytes, c_case.conv)
    /\ c_pc' = "read"
    /\ UNCHANGED c_case

\* A scalar as wide in memory as in the file, or narrower, is read.
Conv_Read_narrower ==
    /\ c_pc = "start"
    /\ SlCalcConvMemLen(c_case.conv) <= SlCalcConvFileLen(c_case.conv)
    /\ c_out' = SlReadConv(c_case.bytes, c_case.conv)
    /\ c_pc' = "read"
    /\ UNCHANGED c_case

ConvNext ==
    \/ (Conv_Read_wider /\ ProbeFrame)
    \/ (Conv_Read_narrower /\ ProbeFrame)

SpecConv == ConvInit /\ [][ConvNext]_vars

\* The bytes of the memory variable after the read, most significant first.
MemoryImage == ToBytes(c_out, SlCalcConvMemLen(c_case.conv))

\* The file image extended to n bytes with a fill byte.
ExtendedImage(bs, n, fill) == [i \in 1..(n - Len(bs)) |-> fill] \o bs

\* The n low-order bytes of a file image.
LowOrder(bs, n) == SubSeq(bs, Len(bs) - n + 1, Len(bs))

(***************************************************************************)
(* C14: the byte 0xFF of a signed 8-bit file value, read into a signed     *)
(* 32-bit memory variable, gives -1 and not 255.                           *)
(***************************************************************************)
C14_MinusOne ==
    (c_pc = "read" /\ c_case.conv = Conv("I8", "I32") /\ c_case.bytes = <<255>>) =>
        (c_out = -1 /\ c_out # 255)

C14_Witness ==
    /\ c_pc = "read"
    /\ c_case.conv = Conv("I8", "I32")
    /\ c_case.bytes = <<255>>
    /\ c_out = -1
    /\ MemoryImage = <<255, 255, 255, 255>>

\* The mixed pairs of the station tables are among the cases, widening and
\* narrowing.
StationPairs ==
    {Conv("U8", "U16"), Conv("U16", "U32"), Conv("U16", "U8"), Conv("U16", "I32"),
     Conv("U16", "U64"), Conv("U32", "I64"), Conv("U32", "U64")}

UINT16_MAX == 65535

\* No descriptor: the translation unit does not compile.
Rejected == [type |-> "rejected"]

\* A validate_conv that lets every target through.
validate_conv_unchecked(p, conv) == TRUE

\* A target of a descriptor: its size, and whether it is a char*.
Target(size, char_ptr) == [size |-> size, char_ptr |-> char_ptr]

\* SaveLoad::validate_conv: DEFINE_VALIDATE_CONV(conv, size) asserts
\* sizeof(T) == size; the overload for SLE_VAR_NAME takes a char* target
\* and asserts nothing of its size; a memory type without an overload does
\* not compile.
validate_conv(p, conv) ==
    IF conv.mem \in {"BL", "I8", "U8", "I16", "U16", "I32", "U32", "I64", "U64"}
    THEN p.size = SlCalcConvMemLen(conv)
    ELSE conv.mem = "NAME" /\ p.char_ptr

\* SaveLoad::validate_array: DEFINE_VALIDATE_ARRAY(conv, size) asserts
\* size * LENGTH <= ALLOC, ALLOC the size of the whole target.
validate_array(p, conv, length) ==
    IF conv.mem \in {"BL", "I8", "U8", "I16", "U16", "I32", "U32", "I64", "U64"}
    THEN SlCalcConvMemLen(conv) * length <= p.size
    ELSE FALSE

\* SaveLoad(SL_VAR, p, address, flags, CONV, from, to, lfrom, lto)
SaveLoad_SL_VAR(p, address, flags, conv, w) ==
    IF validate_conv(p, conv)
    THEN SaveLoad("SL_VAR", conv, flags, 0, w, address)
    ELSE Rejected

\* SaveLoad(SL_ARR, p, address, flags, CONV, LENGTH, from, to, lfrom, lto)
SaveLoad_SL_ARR(p, address, flags, conv, length, w) ==
    IF validate_array(p, conv, length) /\ length > 0 /\ length <= UINT16_MAX
    THEN SaveLoad("SL_ARR", conv, flags, length, w, address)
    ELSE Rejected

\* The sizes of the targets whose types station_sl.cpp declares with
\* fundamental types: the staging globals and the members of FlowSaveLoad.
DeclaredSizes ==
    [_waiting_acceptance |-> 2, _num_flows |-> 4, _cargo_source |-> 2,
     _cargo_source_xy |-> 4, _cargo_days |-> 1, _num_dests |-> 4,
     share |-> 4, restricted |-> 1]

\* The rows of a table.
Range(sld) == {sld[i] : i \in DOMAIN sld}

\* The rows of the station tables with such a target.
DeclaredRows ==
    {d \in Range(GetGoodsDesc) :
        d.type = "SL_VAR" /\ "SLF_GLOBAL" \in d.flags /\ d.address \in DOMAIN DeclaredSizes}
    \cup {d \in Range(_flow_desc) :
        d.type = "SL_VAR" /\ d.address \in {"share", "restricted"}}

\* The memory types, the sizes of the targets and the lengths of the cases.
ConsMemTypes == {"BL", "I8", "U8", "I16", "U16", "I32", "U32", "I64", "U64", "NAME"}
ConsSizes == {1, 2, 3, 4, 8, 16, 64, 65535, 65536, 131070, 524280}
ConsLengths == {0, 1, 2, 3, 16, 65535, 65536}

\* The targets: a pointer has four or eight bytes.
ConsTargets ==
    {Target(size, FALSE) : size \in ConsSizes} \cup {Target(size, TRUE) : size \in {4, 8}}

\* The file type that goes with a memory type in the cases.
ConsConv(mem) == Conv(IF mem \in {"BL", "NAME"} THEN "I8" ELSE mem, mem)

ConsInit ==
    /\ ValidIdle
    /\ LoadIdle
    /\ \E mem \in ConsMemTypes, p \in ConsTargets :
           \/ c_case = [type |-> "SL_VAR", conv |-> ConsConv(mem), p |-> p, length |-> 0]
           \/ \E length \in ConsLengths :
                  c_case = [type |-> "SL_ARR", conv |-> ConsConv(mem), p |-> p,
                            length |-> length]
    /\ c_out = 0
    /\ c_pc = "start"

\* A table with an SLE_VAR row for the target is compiled.
Cons_SL_VAR ==
    /\ c_pc = "start"
    /\ c_case.type = "SL_VAR"
    /\ c_out' = SaveLoad_SL_VAR(c_case.p, "target", {}, c_case.conv, V0)
    /\ c_pc' = "built"
    /\ UNCHANGED c_case

\* A table with an SLE_ARR row for the target is compiled.
Cons_SL_ARR ==
    /\ c_pc = "start"
    /\ c_case.type = "SL_ARR"
    /\ c_out' = SaveLoad_SL_ARR(c_case.p, "target", {}, c_case.conv, c_case.length, V0)
    /\ c_pc' = "built"
    /\ UNCHANGED c_case

ConsNext ==
    \/ (Cons_SL_VAR /\ ProbeFrame)
    \/ (Cons_SL_ARR /\ ProbeFrame)

SpecCons == ConsInit /\ [][ConsNext]_vars

\* The width of a memory type: 1 byte for bool, I8 and U8, 2 for I16 and
\* U16, 4 for I32 and U32, 8 for I64 and U64; 0: the type has no width.
MemWidth(mem) ==
    CASE mem \in {"BL", "I8", "U8"} -> 1
      [] mem \in {"I16", "U16"} -> 2
      [] mem \in {"I32", "U32"} -> 4
      [] mem \in {"I64", "U64"} -> 8
      [] OTHER -> 0

(***************************************************************************)
(* C16: a descriptor of a scalar is constructed only when the width of its *)
(* memory type equals the size of the target, and a descriptor of an array *)
(* only when width times length is at most the size of the target and the  *)
(* length is in 1..65535; any other pair gives no descriptor, and the rows *)
(* of the station tables whose targets have a declared size agree with it. *)
(***************************************************************************)
C16_WidthMatches ==
    /\ c_pc = "built" =>
           LET w == MemWidth(c_case.conv.mem) IN
           /\ c_case.type = "SL_VAR" =>
                  /\ w # 0 => (c_out # Rejected) = (w = c_case.p.size)
                  /\ c_out # Rejected =>
                         c_out.type = "SL_VAR" /\ c_out.conv = c_case.conv
           /\ c_case.type = "SL_ARR" =>
                  /\ (c_out # Rejected) =
                         (w # 0 /\ w * c_case.length <= c_case.p.size
                          /\ c_case.length \in 1..65535)
                  /\ c_out # Rejected =>
                         /\ c_out.type = "SL_ARR" /\ c_out.conv = c_case.conv
                         /\ c_out.length = c_case.length
    /\ \A d \in DeclaredRows :
           d = SaveLoad_SL_VAR(Target(DeclaredSizes[d.address], FALSE), d.address, d.flags, d.conv,
                               [version |-> d.version, legacy |-> d.legacy])

C16_Witness ==
    /\ c_pc = "built"
    /\ c_case.type = "SL_VAR"
    /\ c_case.conv = Conv("U16", "U16")
    /\ c_case.p = Target(4, FALSE)
    /\ c_out = Rejected
    /\ Cardinality(DeclaredRows) >= 6

(***************************************************************************)
(* station_sl.cpp: the buoys of old savegames become waypoints.  A world   *)
(* is the station pool, the order lists, the vehicles, the station tiles   *)
(* of the map and the rectangles of the waypoints.                         *)
(***************************************************************************)

\* The bit of had_vehicle_of_type that marks a buoy, the facilities of a
\* rail waypoint and of a buoy, the owner of a buoy.
HVOT_WAYPOINT == 16
FACIL_TRAIN == 1
FACIL_DOCK == 16
OWNER_NONE == 16

\* The names of the stations: the first buoy name, and the waypoint name.
STR_SV_STNAME_BUOY == 100
STR_SV_STNAME_WAYPOINT == 120

HasHvotWaypoint(st) == (st.had_vehicle_of_type \div HVOT_WAYPOINT) % 2 = 1

\* IsInsideBS(x, base, size)
IsInsideBS(x, base, size) == x >= base /\ x < base + size

\* An order, and the order of a vehicle without one.
MakeOrder(type, dest) == [type |-> type, dest |-> dest]
MakeDummy == MakeOrder("OT_DUMMY", 0)

\* An order that is left as it is.
UpdateWaypointOrder_keep(o, stations) == o

\* An order whose type is switched whatever it goes to.
UpdateWaypointOrder_toggle(o, stations) ==
    IF o.type = "OT_GOTO_STATION" THEN [o EXCEPT !.type = "OT_GOTO_WAYPOINT"]
    ELSE IF o.type = "OT_GOTO_WAYPOINT" THEN [o EXCEPT !.type = "OT_GOTO_STATION"]
    ELSE o

\* UpdateWaypointOrder: a go-to-station order to a buoy becomes a
\* go-to-waypoint order with the same destination.
UpdateWaypointOrder(o, stations) ==
    IF o.type # "OT_GOTO_STATION" THEN o
    ELSE IF ~HasHvotWaypoint(stations[o.dest]) THEN o
    ELSE [o EXCEPT !.type = "OT_GOTO_WAYPOINT"]

\* Station::Get of the destination is defined: it holds a station.
DestinationIsStation(o, stations) ==
    o.type = "OT_GOTO_STATION" =>
        /\ o.dest \in DOMAIN stations
        /\ stations[o.dest] # NoObj
        /\ stations[o.dest].kind = "Station"

\* MoveBuoysToWaypoints, lines 153-167: the orders of ships and trains.
UpdateOrders(w) ==
    [w EXCEPT
        !.orderlists =
            [l \in DOMAIN w.orderlists |->
                IF w.orderlists[l].vt \in {"VEH_SHIP", "VEH_TRAIN"}
                THEN [w.orderlists[l] EXCEPT
                         !.orders = [k \in DOMAIN @ |-> UpdateWaypointOrder(@[k], w.stations)]]
                ELSE w.orderlists[l]],
        !.vehicles =
            [v \in DOMAIN w.vehicles |->
                IF w.vehicles[v].type \in {"VEH_SHIP", "VEH_TRAIN"}
                THEN [w.vehicles[v] EXCEPT
                         !.current_order = UpdateWaypointOrder(@, w.stations)]
                ELSE w.vehicles[v]]]

\* The orders of a list without those of a type to a destination.
RECURSIVE WithoutOrders(_, _, _)
WithoutOrders(orders, type, dest) ==
    IF orders = <<>> THEN <<>>
    ELSE (IF Head(orders).type = type /\ Head(orders).dest = dest
          THEN <<>> ELSE <<Head(orders)>>)
         \o WithoutOrders(Tail(orders), type, dest)

\* delete st: the station leaves the pool and the orders that still go to it
\* are removed from all vehicles (RemoveOrderFromAllVehicles).
DeleteStation(w, index) ==
    [w EXCEPT
        !.stations[index] = NoObj,
        !.orderlists =
            [l \in DOMAIN w.orderlists |->
                [w.orderlists[l] EXCEPT
                    !.orders = WithoutOrders(@, "OT_GOTO_STATION", index)]],
        !.vehicles =
            [v \in DOMAIN w.vehicles |->
                IF w.vehicles[v].current_order = MakeOrder("OT_GOTO_STATION", index)
                THEN [w.vehicles[v] EXCEPT !.current_order = MakeDummy]
                ELSE w.vehicles[v]]]

\* TILE_AREA_LOOP(t, train_st): the tiles of the area; the map of the worlds
\* is one row of tiles.
TileArea(tile, width) == tile..(tile + width - 1)

IsStationTile(w, t) == t \in DOMAIN w.tiles /\ w.tiles[t].type # "none"
IsBuoyTile(w, t) == t \in DOMAIN w.tiles /\ w.tiles[t].type = "STATION_BUOY"

\* A world whose station is gone and whose waypoint is never built.
ConvertBuoy_deleted(w, index) == [w EXCEPT !.stations[index] = NoObj]

\* MoveBuoysToWaypoints, lines 172-215: the buoy at an index becomes a
\* waypoint at the same index, unless the assertion of line 190 fails.
ConvertBuoy(w, index) ==
    LET st == w.stations[index]
        train == st.train_station_tile # INVALID_TILE
        mine == {t \in TileArea(st.train_station_tile, st.train_station_w) :
                    IsStationTile(w, t) /\ w.tiles[t].index = index}
        buoy == ~train /\ IsBuoyTile(w, st.xy) /\ w.tiles[st.xy].index = index
        wp == [NewWaypoint EXCEPT
                  !.xy = st.xy,
                  !.town = st.town,
                  !.string_id = IF train THEN STR_SV_STNAME_WAYPOINT ELSE STR_SV_STNAME_BUOY,
                  !.name = st.name,
                  !.delete_ctr = 0,
                  !.build_date = st.build_date,
                  !.owner = IF train THEN w.tiles[st.xy].owner ELSE OWNER_NONE,
                  !.town_cn = IF IsInsideBS(st.string_id, STR_SV_STNAME_BUOY, 9)
                              THEN st.string_id - STR_SV_STNAME_BUOY ELSE @,
                  !.train_station_tile = IF train THEN st.train_station_tile ELSE @,
                  !.train_station_w = IF train THEN st.train_station_w ELSE @,
                  !.train_station_h = IF train THEN st.train_station_h ELSE @,
                  !.facilities = @ + (IF train THEN FACIL_TRAIN
                                      ELSE IF buoy THEN FACIL_DOCK ELSE 0)]
        Placed(d) ==
            [d EXCEPT
                !.stations[index] = wp,
                !.tiles = [t \in DOMAIN @ |->
                              IF train /\ t \in mine
                              THEN [@[t] EXCEPT !.type = "STATION_WAYPOINT"] ELSE @[t]],
                !.rects[index] = IF train THEN mine ELSE IF buoy THEN {st.xy} ELSE {}]
        deleted == DeleteStation(w, index)
    IN  IF CanAllocateItem(deleted.stations) THEN Placed(deleted)
        ELSE [deleted EXCEPT !.asserted = TRUE]

\* MoveBuoysToWaypoints, lines 169-216: FOR_ALL_STATIONS from an index on.
RECURSIVE ConvertBuoys(_, _)
ConvertBuoys(w, index) ==
    IF index \notin DOMAIN w.stations \/ w.asserted THEN w
    ELSE IF \/ w.stations[index] = NoObj
            \/ w.stations[index].kind # "Station"
            \/ ~HasHvotWaypoint(w.stations[index])
         THEN ConvertBuoys(w, index + 1)
         ELSE ConvertBuoys(ConvertBuoy(w, index), index + 1)

\* MoveBuoysToWaypoints
MoveBuoysToWaypoints(w) == ConvertBuoys(UpdateOrders(w), 0)

\* The stations of the worlds.
BuoyStations ==
    {[NewStation EXCEPT !.xy = 1, !.had_vehicle_of_type = HVOT_WAYPOINT,
                        !.string_id = STR_SV_STNAME_BUOY + 2, !.build_date = 7,
                        !.name = <<66>>, !.train_station_tile = INVALID_TILE],
     [NewStation EXCEPT !.xy = 2, !.had_vehicle_of_type = HVOT_WAYPOINT + 1,
                        !.string_id = 50, !.build_date = 8, !.delete_ctr = 5,
                        !.town = Ptr("towns", 1),
                        !.train_station_tile = 2, !.train_station_w = 2,
                        !.train_station_h = 1]}

PlainStations ==
    {[NewStation EXCEPT !.xy = 3, !.had_vehicle_of_type = 1, !.string_id = 40,
                        !.facilities = FACIL_TRAIN]}

OldWaypoints == {[NewWaypoint EXCEPT !.xy = 0, !.string_id = STR_SV_STNAME_WAYPOINT]}

\* A tile of the map: no station tile, or the tile of a station.
MakeTile(type, index, owner) == [type |-> type, index |-> index, owner |-> owner]

BuoyMaps ==
    {<<MakeTile("none", 0, 0), MakeTile("STATION_BUOY", 0, OWNER_NONE),
       MakeTile("STATION_RAIL", 0, 3), MakeTile("STATION_RAIL", 1, 4)>>,
     <<MakeTile("STATION_BUOY", 1, OWNER_NONE), MakeTile("STATION_BUOY", 1, OWNER_NONE),
       MakeTile("STATION_RAIL", 0, 3), MakeTile("none", 0, 0)>>}

\* The orders of the worlds: to one of the first two stations, or none.
BuoyOrders ==
    {MakeOrder(type, dest) : type \in {"OT_GOTO_STATION", "OT_GOTO_WAYPOINT"}, dest \in {0, 1}}
    \cup {MakeOrder("OT_NOTHING", 0)}

\* The worlds: a buoy or a station at index 0, any base station at index 1,
\* one order list of two orders and one vehicle with a current order.
BuoyWorlds ==
    {[stations |-> [i \in Slots |-> IF i = 0 THEN s0 ELSE IF i = 1 THEN s1 ELSE NoObj],
      orderlists |-> <<[vt |-> vt, orders |-> <<o1, o2>>]>>,
      vehicles |-> <<[type |-> vt, current_order |-> cur]>>,
      tiles |-> [t \in 0..3 |-> map[t + 1]],
      rects |-> [i \in Slots |-> {}],
      asserted |-> FALSE] :
     s0 \in BuoyStations \cup PlainStations,
     s1 \in BuoyStations \cup PlainStations \cup OldWaypoints,
     vt \in {"VEH_SHIP", "VEH_TRAIN", "VEH_ROAD", "VEH_AIRCRAFT"},
     o1 \in BuoyOrders, o2 \in BuoyOrders, cur \in BuoyOrders, map \in BuoyMaps}

\* All orders of a world, listed and current.
AllOrders(w) ==
    UNION {Range(w.orderlists[l].orders) : l \in DOMAIN w.orderlists}
    \cup {w.vehicles[v].current_order : v \in DOMAIN w.vehicles}

BuoyInit ==
    /\ ValidIdle
    /\ LoadIdle
    /\ \E w \in BuoyWorlds :
           /\ \A o \in AllOrders(w) : DestinationIsStation(o, w.stations)
           /\ c_case = w
    /\ c_out = [once |-> 0, twice |-> 0]
    /\ c_pc = "start"

\* MoveBuoysToWaypoints after the load.
Buoy_Move ==
    /\ c_pc = "start"
    /\ c_out' = [c_out EXCEPT !.once = MoveBuoysToWaypoints(c_case)]
    /\ c_pc' = "moved"
    /\ UNCHANGED c_case

\* MoveBuoysToWaypoints a second time.
Buoy_Move_again ==
    /\ c_pc = "moved"
    /\ c_out' = [c_out EXCEPT !.twice = MoveBuoysToWaypoints(c_out.once)]
    /\ c_pc' = "again"
    /\ UNCHANGED c_case

BuoyNext ==
    \/ (Buoy_Move /\ ProbeFrame)
    \/ (Buoy_Move_again /\ ProbeFrame)

SpecBuoy == BuoyInit /\ [][BuoyNext]_vars

\* The station at an index was a buoy and the index now holds a waypoint.
Migrated(index) ==
    /\ c_case.stations[index] # NoObj
    /\ c_case.stations[index].kind = "Station"
    /\ c_out.once.stations[index] # NoObj
    /\ c_out.once.stations[index].kind = "Waypoint"

\* An order that went to a migrated station.
WentToMigrated(o) ==
    o.type = "OT_GOTO_STATION" /\ o.dest \in DOMAIN c_case.stations /\ Migrated(o.dest)

\* An order that still goes, as to a station, to an index that holds a
\* waypoint.
StaleOrder(o, w) ==
    /\ o.type = "OT_GOTO_STATION"
    /\ o.dest \in DOMAIN w.stations
    /\ w.stations[o.dest] # NoObj
    /\ w.stations[o.dest].kind = "Waypoint"

C18_Idempotent ==
    c_pc = "again" =>
        /\ c_out.twice.stations = c_out.once.stations
        /\ c_out.twice.orderlists = c_out.once.orderlists
        /\ c_out.twice.vehicles = c_out.once.vehicles
        /\ c_out.twice.tiles = c_out.once.tiles
        /\ c_out.twice.rects = c_out.once.rects

C18_Witness ==
    /\ c_pc = "again"
    /\ Migrated(0) /\ Migrated(1)
    /\ c_case.stations[0].train_station_tile = 2
    /\ c_case.tiles[2].type = "STATION_RAIL"
    /\ c_out.once.tiles[2].type = "STATION_WAYPOINT"
    /\ c_out.once.rects[0] = {2}
    /\ c_out.once # c_case
    /\ c_out.twice = c_out.once

(***************************************************************************)
(* The legacy version test on savegames of every type.                     *)
(***************************************************************************)

\* enum SavegameType
AllSavegameTypes ==
    {"SGT_TTO", "SGT_TTD", "SGT_TTDP1", "SGT_TTDP2", "SGT_OTTD", "SGT_FTTD", "SGT_INVALID"}

\* The major and minor versions of the cases.
BeforeMajors == 0..3
BeforeMinors == 0..2

BeforeInit ==
    /\ ValidIdle
    /\ LoadIdle
    /\ \E type \in AllSavegameTypes, version \in BeforeMajors, minor_version \in BeforeMinors,
          major \in BeforeMajors, minor \in BeforeMinors :
           c_case = [stv |-> [type |-> type, version |-> version,
                              minor_version |-> minor_version],
                     major |-> major, minor |-> minor]
    /\ c_out = 0
    /\ c_pc = "start"

\* IsOTTDSavegameVersionBefore on a legacy savegame.
Before_legacy ==
    /\ c_pc = "start"
    /\ c_case.stv.type = "SGT_OTTD"
    /\ c_out' = IsOTTDSavegameVersionBefore(c_case.stv, c_case.major, c_case.minor)
    /\ c_pc' = "tested"
    /\ UNCHANGED c_case

\* IsOTTDSavegameVersionBefore on a savegame of another type.
Before_other ==
    /\ c_pc = "start"
    /\ c_case.stv.type # "SGT_OTTD"
    /\ c_out' = IsOTTDSavegameVersionBefore(c_case.stv, c_case.major, c_case.minor)
    /\ c_pc' = "tested"
    /\ UNCHANGED c_case

BeforeNext ==
    \/ (Before_legacy /\ ProbeFrame)
    \/ (Before_other /\ ProbeFrame)

SpecBefore == BeforeInit /\ [][BeforeNext]_vars

\* The savegame of the case is a legacy one older than the given version: a
\* minor of 0 is ignored.
LegacyAndOlder ==
    /\ c_case.stv.type = "SGT_OTTD"
    /\ \/ c_case.stv.version < c_case.major
       \/ /\ c_case.minor # 0
          /\ c_case.stv.version = c_case.major
          /\ c_case.stv.minor_version < c_case.minor

(***************************************************************************)
(* C19, as stated: IsOTTDSavegameVersionBefore is true exactly for a       *)
(* legacy savegame older than the given version, and false for a savegame  *)
(* of every other type.                                                    *)
(***************************************************************************)
C19_Original == c_pc = "tested" => (c_out = LegacyAndOlder)

(***************************************************************************)
(* C19, amended: for a legacy savegame IsOTTDSavegameVersionBefore is true *)
(* exactly when it is older than the given version, a minor of 0 being     *)
(* ignored; for a savegame of this game's own format it is false; for a    *)
(* savegame of any other type (the original game and its patches, or an    *)
(* invalid one) it is true whenever the given major version is above zero. *)
(***************************************************************************)
C19_LegacyOrOlderFormat ==
    c_pc = "tested" =>
        c_out = (CASE c_case.stv.type = "SGT_OTTD" -> LegacyAndOlder
                   [] c_case.stv.type = "SGT_FTTD" -> FALSE
                   [] OTHER -> c_case.major > 0)

C19_Witness ==
    /\ c_pc = "tested"
    /\ c_case.stv.type = "SGT_TTDP2"
    /\ c_case.major = 2
    /\ c_out = TRUE
    /\ ~LegacyAndOlder

(***************************************************************************)
(* SwapPackets at work: legacy files of games whose stations hold packets  *)
(* without destination are loaded by Load_STNS or Load_STNN and fixed by   *)
(* Ptrs_STNS and Ptrs_STNN, with _packets empty or left over from a load   *)
(* that failed.                                                            *)
(***************************************************************************)

\* Legacy versions: packets still counted in _waiting_acceptance, packets in
\* a list of the old station chunk, packets in a list of the new one.
SwapVersions ==
    {[type |-> "SGT_OTTD", version |-> v, minor_version |-> 0] : v \in {60, 100, 150}}

\* The cargo packet pool: room for a packet of every goods entry.
PacketSlots == 0..(PoolSize * NUM_CARGO - 1)

\* The packets of the goods entries of the first station: one or two for the
\* first cargo, one for the others.
FirstLists ==
    {l \in [1..NUM_CARGO -> {<<>>, <<0>>, <<0, 1>>} \cup {<<c>> : c \in 2..NUM_CARGO}] :
        /\ l[1] \in {<<>>, <<0>>, <<0, 1>>}
        /\ \A c \in 2..NUM_CARGO : l[c] \in {<<>>, <<c>>}}

\* The packets of the goods entries of the second station, if there is one.
SecondLists ==
    {<<>>} \cup {[c \in 1..NUM_CARGO |-> IF c = 1 THEN l ELSE <<>>] :
                    l \in {<<>>, <<NUM_CARGO + 1>>}}

\* The packets of station i, cargo c of a case.
CaseList(case, i, c) ==
    IF i = 0 THEN case.first[c]
    ELSE IF i = 1 /\ case.second # <<>> THEN case.second[c] ELSE <<>>

CaseHasStation(case, i) == i = 0 \/ (i = 1 /\ case.second # <<>>)

\* The list of packets without destination of a goods entry.
NoDestination(ge) ==
    IF MapHas(ge.cargo_packets, INVALID_STATION)
    THEN MapGet(ge.cargo_packets, INVALID_STATION) ELSE <<>>

\* A goods entry holding the packets of these indices.
GoodsWith(ids) ==
    IF ids = <<>> THEN NewGoodsEntry
    ELSE [NewGoodsEntry EXCEPT
             !.cargo_packets = MapPut(@, INVALID_STATION,
                                      [k \in 1..Len(ids) |-> Ptr("cargopackets", ids[k])])]

\* The station of index i of a case.
CaseStation(case, i) ==
    [NewStation EXCEPT !.xy = 40 + i,
                       !.goods = [c \in 1..NUM_CARGO |-> GoodsWith(CaseList(case, i, c))]]

\* _waiting_acceptance of a goods entry with n packets: the amount in the low
\* twelve bits, the acceptance in the top bit.
Waiting(n) == IF n = 0 THEN 0 ELSE IF n = 1 THEN 5 ELSE 32768 + 7

\* A goods entry as a file before legacy version 68 holds it.
CountedSaveGoods(ge, g, stv) ==
    WriteObject(ge, [g EXCEPT !._waiting_acceptance = Waiting(Len(NoDestination(ge))),
                              !._cargo_source = 3, !._cargo_source_xy = 77,
                              !._cargo_days = 2, !._cargo_feeder_share = 9],
                GetGoodsDesc, stv)

\* A station as the old station chunk holds it.
OldSaveStation(st, g, stv) ==
    WriteObject(st, g, _old_station_desc, stv)
    \o Concat([c \in 1..NUM_CARGO |->
                  IF IsOTTDVersionBefore(stv, 68) THEN CountedSaveGoods(st.goods[c], g, stv)
                  ELSE OldSaveGoods(st.goods[c], g, stv)], NUM_CARGO)

\* The elements of the station chunk of the file of a case.
SwapElems(case) ==
    [k \in 1..(IF case.second = <<>> THEN 1 ELSE 2) |->
        IF IsOTTDVersionBefore(case.stv, 123)
        THEN OldSaveStation(CaseStation(case, k - 1), InitGlobals, case.stv)
        ELSE OldSaveBaseStation(EmptyPools, CaseStation(case, k - 1), InitGlobals,
                                case.stv)]

\* The pools the stations are loaded into: the packets of the newer files
\* are live when the references are fixed.
SwapPools(stv) ==
    [EmptyPools EXCEPT
        !.cargopackets = [i \in PacketSlots |->
                             IF IsOTTDVersionBefore(stv, 68) THEN NoObj
                             ELSE [kind |-> "CargoPacket"]]]

\* _packets as a load that failed has left it.
StalePackets == {<<>>, <<RawID(1)>>}

SwapInit ==
    /\ ValidIdle /\ LoadIdle
    /\ c_case \in [stv : SwapVersions, first : FirstLists, second : SecondLists,
                   stale : StalePackets]
    /\ c_out = <<>>
    /\ c_pc = "start"

Swap_Load_STNS ==
    /\ c_pc = "start"
    /\ IsOTTDVersionBefore(c_case.stv, 123)
    /\ c_out' = Load_STNS(Loader(SwapPools(c_case.stv),
                                 [InitGlobals EXCEPT !._packets = c_case.stale]),
                          SwapElems(c_case), c_case.stv, NUM_CARGO)
    /\ c_pc' = "loaded"
    /\ UNCHANGED c_case
    /\ ProbeFrame

Swap_Load_STNN ==
    /\ c_pc = "start"
    /\ ~IsOTTDVersionBefore(c_case.stv, 123)
    /\ c_out' = Load_STNN(Loader(SwapPools(c_case.stv),
                                 [InitGlobals EXCEPT !._packets = c_case.stale]),
                          SwapElems(c_case), c_case.stv)
    /\ c_pc' = "loaded"
    /\ UNCHANGED c_case
    /\ ProbeFrame

Swap_Ptrs_STNS ==
    /\ c_pc = "loaded"
    /\ c_out' = Ptrs_STNS(c_out, c_case.stv)
    /\ c_pc' = "old fixed"
    /\ UNCHANGED c_case
    /\ ProbeFrame

Swap_Ptrs_STNN ==
    /\ c_pc = "old fixed"
    /\ c_out' = Ptrs_STNN(c_out, c_case.stv)
    /\ c_pc' = "fixed"
    /\ UNCHANGED c_case
    /\ ProbeFrame

SwapNext == Swap_Load_STNS \/ Swap_Load_STNN \/ Swap_Ptrs_STNS \/ Swap_Ptrs_STNN

SpecSwap == SwapInit /\ [][SwapNext]_vars

\* SwapPackets called with these two lists exchanges them, and its
\* assertion fails exactly when neither is empty.
Exchanges(list, packets) ==
    LET Swapped(sw) ==
            /\ NoDestination(sw.ge) = packets
            /\ sw.glob._packets = list
            /\ sw.aborted = (list # <<>> /\ packets # <<>>)
    IN  Swapped(SwapPackets(IF list = <<>> THEN NewGoodsEntry
                            ELSE [NewGoodsEntry EXCEPT
                                     !.cargo_packets = MapPut(@, INVALID_STATION, list)],
                            [InitGlobals EXCEPT !._packets = packets]))

\* The packets a loaded goods entry holds before the references are fixed:
\* the indices read from the newer files; in the older files what was left
\* in _packets (taken by the first goods entry loaded) and the packet made
\* of the counted cargo.
LoadedList(case, ld, i, c) ==
    LET list == NoDestination(ld.ps.stations[i].goods[c])
        left == IF i = 0 /\ c = 1 THEN case.stale ELSE <<>>
        made == IF CaseList(case, i, c) = <<>> THEN 0 ELSE 1
    IN  IF ~IsOTTDVersionBefore(case.stv, 68)
        THEN list = [k \in 1..Len(CaseList(case, i, c)) |->
                        RawID(CaseList(case, i, c)[k])]
        ELSE /\ Len(list) = Len(left) + made
             /\ SubSeq(list, 1, Len(left)) = left
             /\ made = 1 =>
                    /\ list[Len(list)].k = "ptr"
                    /\ ld.ps.cargopackets[list[Len(list)].idx].count
                           = Waiting(Len(CaseList(case, i, c))) % 4096

\* The packets a goods entry holds when the references are fixed.
FixedList(case, ld, i, c) ==
    IF IsOTTDVersionBefore(case.stv, 68) THEN LoadedList(case, ld, i, c)
    ELSE NoDestination(ld.ps.stations[i].goods[c])
             = [k \in 1..Len(CaseList(case, i, c)) |->
                   Ptr("cargopackets", CaseList(case, i, c)[k])]

\* The packets made by Load_STNS: every live packet is in one list, once.
PacketsHeld(ld) ==
    \A p \in PacketSlots :
        ld.ps.cargopackets[p] # NoObj =>
            Cardinality({<<i, c, k>> \in Slots \X (1..NUM_CARGO) \X (1..2) :
                            /\ ld.ps.stations[i] # NoObj
                            /\ k <= Len(NoDestination(ld.ps.stations[i].goods[c]))
                            /\ NoDestination(ld.ps.stations[i].goods[c])[k]
                                   = Ptr("cargopackets", p)}) = 1

\* C20: SwapPackets exchanges _packets with the list of packets without
\* destination of the goods entry; in every call of the load and of the
\* fixup of a legacy file one of the two lists is empty, so that the
\* assertion never fails, _packets is empty after each callback, and the
\* stations hold the packets of the file, none lost and none twice.
C20_SwapNeverFails ==
    /\ \A c \in 1..NUM_CARGO :
           /\ Exchanges(NoDestination(GoodsWith(c_case.first[c])), <<>>)
           /\ Exchanges(<<>>, NoDestination(GoodsWith(c_case.first[c])))
    /\ c_pc # "start" =>
           /\ c_out.ok /\ ~c_out.aborted
           /\ c_out.glob._packets = <<>>
           /\ \A i \in Slots : (c_out.ps.stations[i] # NoObj) = CaseHasStation(c_case, i)
           /\ \A i \in Slots : \A c \in 1..NUM_CARGO :
                  CaseHasStation(c_case, i) =>
                      IF \/ c_pc = "fixed"
                         \/ c_pc = "old fixed" /\ IsOTTDVersionBefore(c_case.stv, 123)
                      THEN FixedList(c_case, c_out, i, c)
                      ELSE LoadedList(c_case, c_out, i, c)
           /\ IsOTTDVersionBefore(c_case.stv, 68) => PacketsHeld(c_out)

\* A file of two stations was loaded and fixed: packets went through
\* _packets into the lists of both, with _packets not empty at the start.
C20_Witness ==
    /\ c_pc = "fixed"
    /\ c_case.stale # <<>>
    /\ c_case.second # <<>>
    /\ Len(c_case.first[1]) = 2
    /\ ~IsOTTDVersionBefore(c_case.stv, 68)
    /\ Len(NoDestination(c_out.ps.stations[0].goods[1])) = 2
    /\ Len(NoDestination(c_out.ps.stations[1].goods[1])) = 1

(***************************************************************************)
(* cargoaction.cpp: the cargo actions that move packets from the cargo     *)
(* list of a station to the cargo list of a vehicle.  An action works on   *)
(* mv = [source, destination, max_move, load_place, full]: the two lists,  *)
(* the cargo the action may still move, the tile of loading, and whether   *)
(* the cargo packet pool is full.                                          *)
(***************************************************************************)

\* VehicleCargoList::MoveToAction: the designations the actions append with.
MTA_KEEP == 2
MTA_LOAD == 3

\* No packet (NULL).
NoPacket == [id |-> "NULL", count |-> 0, load_place |-> 0]

\* CargoPacket::Split(new_size): a new packet of new_size taken off cp, or
\* NULL when no packet can be allocated. Result: [cp, cp_new].
Split(cp, new_size, full) ==
    IF full THEN [cp |-> cp, cp_new |-> NoPacket]
    ELSE [cp |-> [cp EXCEPT !.count = @ - new_size],
          cp_new |-> [id |-> "split", count |-> new_size, load_place |-> cp.load_place]]

\* CargoMovement::Preprocess(cp): the packet is split if the action may not
\* move all of it. Result: [mv, cp, cp_new].
Preprocess(mv, cp) ==
    LET Done(s) == [mv |-> [mv EXCEPT !.max_move = 0], cp |-> s.cp, cp_new |-> s.cp_new]
    IN  IF mv.max_move < cp.count THEN Done(Split(cp, mv.max_move, mv.full))
        ELSE [mv |-> [mv EXCEPT !.max_move = @ - cp.count], cp |-> cp, cp_new |-> cp]

\* CargoList::RemoveFromCache(cp, count)
RemoveFromCache(list, cp, count) == [list EXCEPT !.count = @ - count]

\* VehicleCargoList::Append(cp, action)
AppendPacket(list, cp, action) ==
    [list EXCEPT !.packets = Append(@, [cp |-> cp, action |-> action]),
                 !.count = @ + cp.count]

\* The action reporting every packet it handed over as completely loaded.
CargoLoad_any_moved(mv, cp) ==
    LET Moved(p) ==
            IF p.cp_new = NoPacket
            THEN [ret |-> FALSE, mv |-> p.mv, cp |-> p.cp, cp_new |-> NoPacket]
            ELSE [ret |-> TRUE,
                  mv |-> [p.mv EXCEPT
                             !.source = RemoveFromCache(@, p.cp_new, p.cp_new.count),
                             !.destination =
                                 AppendPacket(@, [p.cp_new EXCEPT
                                                     !.load_place = mv.load_place],
                                              MTA_KEEP)],
                  cp |-> IF p.cp_new.id = cp.id
                         THEN [p.cp EXCEPT !.load_place = mv.load_place] ELSE p.cp,
                  cp_new |-> [p.cp_new EXCEPT !.load_place = mv.load_place]]
    IN  Moved(Preprocess(mv, cp))

\* CargoLoad::operator()(cp). Result: [ret, mv, cp, cp_new].
CargoLoad(mv, cp) ==
    LET Moved(p) ==
            IF p.cp_new = NoPacket
            THEN [ret |-> FALSE, mv |-> p.mv, cp |-> p.cp, cp_new |-> NoPacket]
            ELSE [ret |-> p.cp_new.id = cp.id,
                  mv |-> [p.mv EXCEPT
                             !.source = RemoveFromCache(@, p.cp_new, p.cp_new.count),
                             !.destination =
                                 AppendPacket(@, [p.cp_new EXCEPT
                                                     !.load_place = mv.load_place],
                                              MTA_KEEP)],
                  cp |-> IF p.cp_new.id = cp.id
                         THEN [p.cp EXCEPT !.load_place = mv.load_place] ELSE p.cp,
                  cp_new |-> [p.cp_new EXCEPT !.load_place = mv.load_place]]
    IN  Moved(Preprocess(mv, cp))

\* The reservation that does not count what it reserves.
CargoReservation_uncounted(mv, cp) ==
    LET Moved(p) ==
            IF p.cp_new = NoPacket
            THEN [ret |-> FALSE, mv |-> p.mv, cp |-> p.cp, cp_new |-> NoPacket]
            ELSE [ret |-> p.cp_new.id = cp.id,
                  mv |-> [p.mv EXCEPT
                             !.source = RemoveFromCache(@, p.cp_new, p.cp_new.count),
                             !.destination =
                                 AppendPacket(@, [p.cp_new EXCEPT
                                                     !.load_place = mv.load_place],
                                              MTA_LOAD)],
                  cp |-> IF p.cp_new.id = cp.id
                         THEN [p.cp EXCEPT !.load_place = mv.load_place] ELSE p.cp,
                  cp_new |-> [p.cp_new EXCEPT !.load_place = mv.load_place]]
    IN  Moved(Preprocess(mv, cp))

\* CargoReservation::operator()(cp). Result: [ret, mv, cp, cp_new].
CargoReservation(mv, cp) ==
    LET Moved(p) ==
            IF p.cp_new = NoPacket
            THEN [ret |-> FALSE, mv |-> p.mv, cp |-> p.cp, cp_new |-> NoPacket]
            ELSE [ret |-> p.cp_new.id = cp.id,
                  mv |-> [p.mv EXCEPT
                             !.source =
                                 RemoveFromCache([@ EXCEPT !.reserved_count =
                                                               @ + p.cp_new.count],
                                                 p.cp_new, p.cp_new.count),
                             !.destination =
                                 AppendPacket(@, [p.cp_new EXCEPT
                                                     !.load_place = mv.load_place],
                                              MTA_LOAD)],
                  cp |-> IF p.cp_new.id = cp.id
                         THEN [p.cp EXCEPT !.load_place = mv.load_place] ELSE p.cp,
                  cp_new |-> [p.cp_new EXCEPT !.load_place = mv.load_place]]
    IN  Moved(Preprocess(mv, cp))

\* The cargo of the packets of the probe, and what an action may move.
PacketCounts == 1..3
MaxMoves == 0..4

\* The packet the action is applied to: the first of the station's list.
CasePacket(case) == [id |-> "cp", count |-> case.count, load_place |-> 0]

\* The action of a case: the station holds the packet and other cargo, some
\* of it reserved; the vehicle holds a packet already.
CaseMovement(case) ==
    [source |-> [count |-> case.count + case.other, reserved_count |-> case.reserved],
     destination |-> [packets |-> << [cp |-> [id |-> "kept", count |-> 2, load_place |-> 30],
                                      action |-> MTA_KEEP] >>,
                      count |-> 2],
     max_move |-> case.max_move, load_place |-> 31, full |-> case.full]

CargoInit ==
    /\ ValidIdle /\ LoadIdle
    /\ c_case \in [count : PacketCounts, max_move : MaxMoves, full : BOOLEAN,
                   other : 0..2, reserved : 0..2]
    /\ c_out = <<>>
    /\ c_pc = "start"

Cargo_Load ==
    /\ c_pc = "start"
    /\ c_out' = CargoLoad(CaseMovement(c_case), CasePacket(c_case))
    /\ c_pc' = "loaded"
    /\ UNCHANGED c_case
    /\ ProbeFrame

Cargo_Reservation ==
    /\ c_pc = "start"
    /\ c_out' = CargoReservation(CaseMovement(c_case), CasePacket(c_case))
    /\ c_pc' = "reserved"
    /\ UNCHANGED c_case
    /\ ProbeFrame

CargoNext == Cargo_Load \/ Cargo_Reservation

SpecCargo == CargoInit /\ [][CargoNext]_vars

\* The cargo the action added to the vehicle's list.
CargoMoved == c_out.mv.destination.count - CaseMovement(c_case).destination.count

\* The packet last in the vehicle's list.
LastAppended == c_out.mv.destination.packets[Len(c_out.mv.destination.packets)]

\* C21: CargoLoad and CargoReservation return true exactly when the whole
\* packet went to the vehicle, the packet appended being the original one,
\* and false when a part of it or nothing went.
C21_TrueIffWholePacket ==
    c_pc # "start" =>
        /\ c_out.ret <=> /\ Len(c_out.mv.destination.packets) = 2
                         /\ LastAppended.cp.id = CasePacket(c_case).id
                         /\ CargoMoved = c_case.count
        /\ ~c_out.ret => CargoMoved < c_case.count
        /\ ~c_out.ret /\ Len(c_out.mv.destination.packets) = 2 =>
               /\ LastAppended.cp.id = "split"
               /\ c_out.cp.count + CargoMoved = c_case.count

\* A whole packet was reserved though more could have been moved.
C21_Witness ==
    /\ c_pc = "reserved"
    /\ c_out.ret
    /\ c_case.count = 3
    /\ c_case.max_move = 4

\* C30: CargoReservation adds the count of the packet it hands to the
\* vehicle to reserved_count of the station's list and appends the packet
\* with MTA_LOAD; CargoLoad appends it with MTA_KEEP and leaves
\* reserved_count alone; when Preprocess gives no packet, the action returns
\* false and reserved_count, the cache of the source and the destination
\* list are as before.
C30_ReservedCount ==
    c_pc # "start" =>
        IF c_out.cp_new = NoPacket
        THEN /\ ~c_out.ret
             /\ c_out.mv.source = CaseMovement(c_case).source
             /\ c_out.mv.destination = CaseMovement(c_case).destination
        ELSE /\ LastAppended.cp = c_out.cp_new
             /\ Len(c_out.mv.destination.packets) = 2
             /\ c_out.mv.destination.packets[1] = CaseMovement(c_case).destination.packets[1]
             /\ c_out.mv.source.count = CaseMovement(c_case).source.count - c_out.cp_new.count
             /\ IF c_pc = "reserved"
                THEN /\ c_out.mv.source.reserved_count
                            = c_case.reserved + c_out.cp_new.count
                     /\ LastAppended.action = MTA_LOAD
                ELSE /\ c_out.mv.source.reserved_count = c_case.reserved
                     /\ LastAppended.action = MTA_KEEP

\* A part of a packet was reserved: the cargo reserved grew by the part.
C30_Witness ==
    /\ c_pc = "reserved"
    /\ c_out.cp_new.id = "split"
    /\ c_case.max_move = 2
    /\ c_case.reserved = 1
    /\ c_out.mv.source.reserved_count = 3

(***************************************************************************)
(* The two fixup callbacks of the stations, run one after the other as the *)
(* fixup pass runs them, on the stations read from a file of each kind or, *)
(* for the arguments that come with no file of station chunks, on the      *)
(* stations in memory.                                                     *)
(***************************************************************************)

\* The arguments of the callbacks: legacy versions on both sides of 68, 123
\* and 183, the current version, an older format, and no version.
FixFileVersions ==
    {[type |-> "SGT_OTTD", version |-> v, minor_version |-> 0] :
        v \in {60, 100, 122, 123, 150}}
    \cup {CurrentVersion}

FixArgs ==
    FixFileVersions
    \cup {[type |-> "SGT_TTDP2", version |-> 0, minor_version |-> 0], NoVersion}

\* The case as a game and its file.
FixGame(case) ==
    [stv |-> case.arg, first |-> case.first, second |-> case.second, stale |-> <<>>]

\* The game of a case in memory: its references are handles.
FixPools(case) ==
    [EmptyPools EXCEPT
        !.cargopackets = [i \in PacketSlots |-> [kind |-> "CargoPacket"]],
        !.stations = [i \in Slots |->
                         IF CaseHasStation(FixGame(case), i)
                         THEN CaseStation(FixGame(case), i) ELSE NoObj]]

\* The stations a fixup pass finds: loaded from the file of the game by the
\* load callback of its version, or the game in memory.
FixLoaded(case) ==
    IF case.arg \notin FixFileVersions THEN Loader(FixPools(case), InitGlobals)
    ELSE IF case.arg.type = "SGT_FTTD"
    THEN Load_STNN(Loader(SwapPools(case.arg), InitGlobals),
                   Save_STNN(FixPools(case), InitGlobals, case.arg).elems, case.arg)
    ELSE IF IsOTTDVersionBefore(case.arg, 123)
    THEN Load_STNS(Loader(SwapPools(case.arg), InitGlobals), SwapElems(FixGame(case)),
                   case.arg, NUM_CARGO)
    ELSE Load_STNN(Loader(SwapPools(case.arg), InitGlobals), SwapElems(FixGame(case)),
                   case.arg)

FixInit ==
    /\ ValidIdle /\ LoadIdle
    /\ c_case \in [arg : FixArgs, first : FirstLists, second : SecondLists]
    /\ c_out = <<>>
    /\ c_pc = "start"

Fix_Load ==
    /\ c_pc = "start"
    /\ c_out' = <<FixLoaded(c_case)>>
    /\ c_pc' = "loaded"
    /\ UNCHANGED c_case
    /\ ProbeFrame

Fix_Ptrs_STNS ==
    /\ c_pc = "loaded"
    /\ c_out' = Append(c_out, Ptrs_STNS(c_out[1], c_case.arg))
    /\ c_pc' = "old fixed"
    /\ UNCHANGED c_case
    /\ ProbeFrame

Fix_Ptrs_STNN ==
    /\ c_pc = "old fixed"
    /\ c_out' = Append(c_out, Ptrs_STNN(c_out[2], c_case.arg))
    /\ c_pc' = "fixed"
    /\ UNCHANGED c_case
    /\ ProbeFrame

FixNext == Fix_Load \/ Fix_Ptrs_STNS \/ Fix_Ptrs_STNN

SpecFix == FixInit /\ [][FixNext]_vars

\* The argument is a version, of a file before legacy version 123.
IsOldArg(arg) == arg # NoVersion /\ IsOTTDVersionBefore(arg, 123)

\* The references of a station and of its goods entries.
StationRefs(st) ==
    {st.town, st.bus_stops, st.truck_stops, st.docks, st.airport_psa}
    \cup {st.loading_vehicles[k] : k \in 1..Len(st.loading_vehicles)}
    \cup UNION {UNION {{st.goods[c].cargo_packets[m].val[k] :
                           k \in 1..Len(st.goods[c].cargo_packets[m].val)} :
                       m \in 1..Len(st.goods[c].cargo_packets)} :
                c \in 1..NUM_CARGO}

\* No reference of a station is a raw ID any more.
NoRawID(ld) ==
    \A i \in Slots :
        ld.ps.stations[i] # NoObj =>
            \A r \in StationRefs(ld.ps.stations[i]) : r.k # "raw"

\* C22: whatever argument the fixup pass hands the callbacks, exactly one
\* of Ptrs_STNS and Ptrs_STNN fixes the stations: Ptrs_STNS iff the
\* argument is a version before legacy version 123, Ptrs_STNN otherwise;
\* the other leaves everything as it is, and after both the packets of the
\* goods entries are the handles of the packets of the file, no reference
\* being a raw ID.
C22_ExactlyOneFixes ==
    LET old == IsOldArg(c_case.arg)
        file == c_case.arg \in FixFileVersions
    IN  /\ Len(c_out) >= 2 =>
               /\ ~old => c_out[2] = c_out[1]
               /\ old /\ file => c_out[2] # c_out[1] /\ NoRawID(c_out[2])
        /\ Len(c_out) = 3 =>
               /\ old => c_out[3] = c_out[2]
               /\ ~old /\ file => c_out[3] # c_out[2]
               /\ c_case.arg = NoVersion /\ c_case.first[1] # <<>> => c_out[3] # c_out[2]
               /\ c_out[3].ok /\ ~c_out[3].aborted
               /\ NoRawID(c_out[3])
               /\ file =>
                      \A i \in Slots : \A c \in 1..NUM_CARGO :
                          CaseHasStation(FixGame(c_case), i) =>
                              FixedList(FixGame(c_case), c_out[3], i, c)

\* Both callbacks were called with no version: Ptrs_STNN alone ran.
C22_Witness ==
    /\ c_pc = "fixed"
    /\ c_case.second # <<>>
    /\ Len(c_case.first[1]) = 2
    /\ c_case.arg = NoVersion
    /\ c_out[3] # c_out[2]
    /\ c_out[2] = c_out[1]

(***************************************************************************)
(* _packets over two loads: a legacy file that may end before the end of   *)
(* its last station is loaded, then the legacy file of a game is loaded    *)
(* and fixed.  _packets is a static variable of station_sl.cpp: a load     *)
(* leaves it as its last ReadObject and SwapPackets left it.               *)
(***************************************************************************)

\* The version of the first file: _packets is in the goods entries, with
\* cargo_reserved_count after it.
FirstVersion == [type |-> "SGT_OTTD", version |-> 182, minor_version |-> 0]

\* The bytes missing at the end of the first file.
Cuts == 0..2

\* The first file: one station, its last bytes missing.
FirstElems(case) ==
    LET game == [stv |-> FirstVersion, first |-> case.first, second |-> <<>>,
                 stale |-> <<>>]
        Cut(e) == <<SubSeq(e, 1, Len(e) - case.cut)>>
    IN  Cut(SwapElems(game)[1])

StaleInit ==
    /\ ValidIdle /\ LoadIdle
    /\ c_case \in [stv : SwapVersions, first : FirstLists, second : SecondLists,
                   stale : {<<>>}, cut : Cuts]
    /\ c_out = <<>>
    /\ c_pc = "start"

\* The first file is loaded: the load succeeds, or fails where the file ends.
Stale_Load_first ==
    /\ c_pc = "start"
    /\ c_out' = Load_STNN(Loader(SwapPools(FirstVersion), InitGlobals),
                          FirstElems(c_case), FirstVersion)
    /\ c_pc' = "first"
    /\ UNCHANGED c_case
    /\ ProbeFrame

\* The second file is loaded into empty pools.
Stale_Load_STNS ==
    /\ c_pc = "first"
    /\ IsOTTDVersionBefore(c_case.stv, 123)
    /\ c_out' = Load_STNS(Loader(SwapPools(c_case.stv), c_out.glob),
                          SwapElems(c_case), c_case.stv, NUM_CARGO)
    /\ c_pc' = "loaded"
    /\ UNCHANGED c_case
    /\ ProbeFrame

Stale_Load_STNN ==
    /\ c_pc = "first"
    /\ ~IsOTTDVersionBefore(c_case.stv, 123)
    /\ c_out' = Load_STNN(Loader(SwapPools(c_case.stv), c_out.glob),
                          SwapElems(c_case), c_case.stv)
    /\ c_pc' = "loaded"
    /\ UNCHANGED c_case
    /\ ProbeFrame

Stale_Ptrs_STNS ==
    /\ c_pc = "loaded"
    /\ c_out' = Ptrs_STNS(c_out, c_case.stv)
    /\ c_pc' = "old fixed"
    /\ UNCHANGED c_case
    /\ ProbeFrame

Stale_Ptrs_STNN ==
    /\ c_pc = "old fixed"
    /\ c_out' = Ptrs_STNN(c_out, c_case.stv)
    /\ c_pc' = "fixed"
    /\ UNCHANGED c_case
    /\ ProbeFrame

StaleNext ==
    \/ Stale_Load_first
    \/ Stale_Load_STNS
    \/ Stale_Load_STNN
    \/ Stale_Ptrs_STNS
    \/ Stale_Ptrs_STNN

SpecStale == StaleInit /\ [][StaleNext]_vars

\* C23: _packets is empty before the goods entries of a file are read and
\* before and after the goods entries are fixed, whatever the version of the
\* file; the fixup leaves in the list without destination of a goods
\* entry the packets of the file in their order, as handles, and a goods
\* entry without packets gets no such list.
C23_PacketsEmpty ==
    /\ c_pc # "start" => c_out.glob._packets = <<>>
    /\ c_pc \in {"loaded", "old fixed", "fixed"} =>
           \A i \in Slots : \A c \in 1..NUM_CARGO :
               c_out.ps.stations[i] # NoObj =>
                   /\ (~IsOTTDVersionBefore(c_case.stv, 68)
                       /\ (c_pc = "fixed"
                           \/ (c_pc = "old fixed"
                               /\ IsOTTDVersionBefore(c_case.stv, 123))))
                      => FixedList(c_case, c_out, i, c)
                   /\ CaseList(c_case, i, c) = <<>>
                      => c_out.ps.stations[i].goods[c].cargo_packets = <<>>

(***************************************************************************)
(* The counts of the records of a goods entry: stations with flows and     *)
(* packets for several destinations are saved by Save_STNN, or are at hand *)
(* in a legacy file, and loaded by Load_STNN, with _num_flows and          *)
(* _num_dests left at some value by what ran before.                       *)
(***************************************************************************)

\* The flow maps of a goods entry: none, one source of two shares, two
\* sources.
CountFlows ==
    { <<>>,
      << [key |-> 0, val |-> [shares |-> << [key |-> 10, val |-> 3],
                                            [key |-> 25, val |-> 7] >>,
                              unrestricted |-> 10]] >>,
      << [key |-> 0, val |-> FlowStat(3, 10, FALSE)],
         [key |-> 1, val |-> FlowStat(7, 5, TRUE)] >> }

\* The packets of a goods entry: none, one list, two lists.
CountLists ==
    { <<>>,
      << [key |-> INVALID_STATION, val |-> <<Ptr("cargopackets", 0)>>] >>,
      << [key |-> 1, val |-> <<Ptr("cargopackets", 0)>>],
         [key |-> INVALID_STATION,
          val |-> <<Ptr("cargopackets", 1), Ptr("cargopackets", 0)>>] >> }

\* What the staging counts hold before the save and before the load.
LeftOver == {0, 2}

\* The legacy file of the probe.
CountLegacy == [type |-> "SGT_OTTD", version |-> 150, minor_version |-> 0]

\* Station 0 of a case, and station 1 with the goods entries in reverse.
CountStation(case, i) ==
    [NewStation EXCEPT
        !.xy = 50 + i,
        !.goods = [c \in 1..NUM_CARGO |->
                      LET d == IF i = 0 THEN c ELSE NUM_CARGO + 1 - c
                      IN  [NewGoodsEntry EXCEPT !.flows = case.flows[d],
                                                !.cargo_packets = case.lists[d]]]]

CountPools(case) ==
    [EmptyPools EXCEPT !.stations = [i \in Slots |->
                                        IF i <= 1 THEN CountStation(case, i) ELSE NoObj]]

CountGlobals(case) ==
    [InitGlobals EXCEPT !._num_flows = case.left, !._num_dests = case.left]

CountInit ==
    /\ ValidIdle /\ LoadIdle
    /\ c_case \in [stv : {CurrentVersion, CountLegacy},
                   flows : [1..NUM_CARGO -> CountFlows],
                   lists : [1..NUM_CARGO -> CountLists],
                   left : LeftOver]
    /\ c_out = <<>>
    /\ c_pc = "start"

\* Save_STNN on the stations of the case.
Count_Save_STNN ==
    /\ c_pc = "start"
    /\ c_case.stv = CurrentVersion
    /\ c_out' = [elems |-> Save_STNN(CountPools(c_case), CountGlobals(c_case),
                                     c_case.stv).elems]
    /\ c_pc' = "saved"
    /\ UNCHANGED c_case
    /\ ProbeFrame

\* The legacy file of the stations of the case.
Count_LegacyFile ==
    /\ c_pc = "start"
    /\ c_case.stv = CountLegacy
    /\ c_out' = [elems |-> [k \in 1..2 |->
                               OldSaveBaseStation(EmptyPools, CountStation(c_case, k - 1),
                                                  InitGlobals, c_case.stv)]]
    /\ c_pc' = "saved"
    /\ UNCHANGED c_case
    /\ ProbeFrame

\* Load_STNN on the elements.
Count_Load_STNN ==
    /\ c_pc = "saved"
    /\ c_out' = [elems |-> c_out.elems,
                 ld |-> Load_STNN(Loader(EmptyPools, CountGlobals(c_case)), c_out.elems,
                                  c_case.stv)]
    /\ c_pc' = "loaded"
    /\ UNCHANGED c_case
    /\ ProbeFrame

CountNext == Count_Save_STNN \/ Count_LegacyFile \/ Count_Load_STNN

SpecCount == CountInit /\ [][CountNext]_vars

\* The bytes of the first n cargo-list records of a goods entry.
RECURSIVE ListBytes(_, _)
ListBytes(packets, n) ==
    IF n = 0 THEN 0
    ELSE ListBytes(packets, n - 1)
             + SlCalcObjLength([first |-> packets[n].key, second |-> packets[n].val],
                               InitGlobals, _cargo_list_desc, CurrentVersion)

\* The bytes of the records of a goods entry in a file of the current
\* version: the goods record, the flow records, the cargo-list records.
GoodsBytes(ge) ==
    SlCalcObjLength(ge, InitGlobals, GetGoodsDesc, CurrentVersion)
    + NumFlows(ge.flows, Len(ge.flows))
          * SlCalcObjLength(NewFlowSaveLoad, InitGlobals, _flow_desc, CurrentVersion)
    + ListBytes(ge.cargo_packets, Len(ge.cargo_packets))

\* Where the goods record of cargo c starts in the element of a station.
RECURSIVE GoodsOffset(_, _)
GoodsOffset(st, c) ==
    IF c = 1 THEN SlCalcObjLength(st, InitGlobals, _station_desc, CurrentVersion)
    ELSE GoodsOffset(st, c - 1) + GoodsBytes(st.goods[c - 1])

\* The staging globals as the goods record of cargo c in the element says.
StoredCounts(bytes, st, c) ==
    ReadObject([buf |-> Drop(bytes, GoodsOffset(st, c)), glob |-> InitGlobals,
                ok |-> TRUE],
               NewGoodsEntry, GetGoodsDesc, CurrentVersion).glob

\* C24: in the elements Save_STNN writes, the _num_flows of every goods
\* record is the number of flow records after it and its _num_dests the
\* number of cargo-list records after those, and the element is as long as
\* its records; Load_STNN reads as many records as the counts of the goods
\* record say, none for a file without _num_flows, whatever the counts
\* held before, and ends at the end of every element.
C24_CountsMatch ==
    /\ c_pc # "start" /\ c_case.stv = CurrentVersion =>
           \A i \in 0..1 :
               LET st == CountStation(c_case, i) IN
               /\ Len(c_out.elems[i + 1]) = GoodsOffset(st, NUM_CARGO + 1)
               /\ \A c \in 1..NUM_CARGO :
                      LET g == StoredCounts(c_out.elems[i + 1], st, c) IN
                      /\ g._num_flows = NumFlows(st.goods[c].flows, Len(st.goods[c].flows))
                      /\ g._num_dests = Len(st.goods[c].cargo_packets)
    /\ c_pc = "loaded" =>
           /\ c_out.ld.ok /\ ~c_out.ld.aborted
           /\ \A i \in 0..1 : \A c \in 1..NUM_CARGO :
                  LET ge == CountStation(c_case, i).goods[c]
                      got == c_out.ld.ps.stations[i].goods[c]
                  IN  IF c_case.stv = CurrentVersion
                      THEN /\ NumFlows(got.flows, Len(got.flows))
                                  = NumFlows(ge.flows, Len(ge.flows))
                           /\ Len(got.flows) = Len(ge.flows)
                           /\ Len(got.cargo_packets) = Len(ge.cargo_packets)
                           /\ \A m \in 1..Len(ge.cargo_packets) :
                                  /\ got.cargo_packets[m].key = ge.cargo_packets[m].key
                                  /\ Len(got.cargo_packets[m].val)
                                         = Len(ge.cargo_packets[m].val)
                      ELSE /\ got.flows = <<>>
                           /\ Len(NoDestination(got)) = Len(NoDestination(ge))

\* Stations whose goods entries differ in their counts were saved and
\* loaded, the counts holding 2 before.
C24_Witness ==
    /\ c_pc = "loaded"
    /\ c_case.stv = CurrentVersion
    /\ c_case.left = 2
    /\ Len(c_case.flows[1]) = 2 /\ c_case.flows[NUM_CARGO] = <<>>
    /\ Len(c_case.lists[1]) = 2 /\ c_case.lists[NUM_CARGO] = <<>>
    /\ Len(c_out.ld.ps.stations[1].goods[NUM_CARGO].flows) = 2
    /\ c_out.ld.ps.stations[1].goods[1].flows = <<>>

(***************************************************************************)
(* The kind of a base station in its element: stations and waypoints of    *)
(* several facilities are saved by Save_STNN and loaded by Load_STNN.      *)
(***************************************************************************)

\* What a slot of the pool holds: nothing, a station with no part, a rail
\* part or a rail part and a dock, or a waypoint, plain, of rail or a buoy.
KindObjects ==
    {NoObj}
    \cup {[NewStation EXCEPT !.xy = 60 + f, !.facilities = f, !.owner = 2] :
             f \in {FACIL_NONE, FACIL_TRAIN, FACIL_TRAIN + FACIL_DOCK}}
    \cup {[NewWaypoint EXCEPT !.xy = 70 + f, !.facilities = FACIL_WAYPOINT + f,
                              !.town_cn = 4] :
             f \in {FACIL_NONE, FACIL_TRAIN, FACIL_DOCK}}

KindInit ==
    /\ ValidIdle /\ LoadIdle
    /\ c_case \in [Slots -> KindObjects]
    /\ c_out = <<>>
    /\ c_pc = "start"

Kind_Save_STNN ==
    /\ c_pc = "start"
    /\ c_out' = [elems |-> Save_STNN([EmptyPools EXCEPT !.stations = c_case],
                                     InitGlobals, CurrentVersion).elems]
    /\ c_pc' = "saved"
    /\ UNCHANGED c_case
    /\ ProbeFrame

Kind_Load_STNN ==
    /\ c_pc = "saved"
    /\ c_out' = [elems |-> c_out.elems,
                 ld |-> Load_STNN(Loader(EmptyPools, InitGlobals), c_out.elems,
                                  CurrentVersion)]
    /\ c_pc' = "loaded"
    /\ UNCHANGED c_case
    /\ ProbeFrame

KindNext == Kind_Save_STNN \/ Kind_Load_STNN

SpecKind == KindInit /\ [][KindNext]_vars

\* The fields of a base station that are no references.
PlainFields(bst) ==
    <<bst.kind, bst.xy, bst.string_id, bst.name, bst.delete_ctr, bst.owner,
      bst.facilities, bst.build_date, bst.random_bits, bst.waiting_triggers,
      bst.num_specs, bst.train_station_tile, bst.train_station_w, bst.train_station_h>>

\* C25: the first byte of an element of Save_STNN is the constant of the
\* descriptor table, FACIL_WAYPOINT for a waypoint and FACIL_NONE for a
\* station, whatever the facilities of the object; Load_STNN makes a
\* Waypoint at the index of the element iff the byte has the bit
\* FACIL_WAYPOINT, a Station otherwise, and reads the fields from the byte
\* after it: kind and fields of the object at every index are those saved.
C25_KindSurvives ==
    /\ c_pc # "start" =>
           \A i \in Slots :
               c_case[i] # NoObj =>
                   /\ i + 1 <= Len(c_out.elems)
                   /\ c_out.elems[i + 1][1]
                          = (IF c_case[i].kind = "Waypoint" THEN FACIL_WAYPOINT
                             ELSE FACIL_NONE)
                   /\ ((c_out.elems[i + 1][1] \div FACIL_WAYPOINT) % 2 = 1)
                          <=> c_case[i].kind = "Waypoint"
    /\ c_pc = "loaded" =>
           /\ c_out.ld.ok /\ ~c_out.ld.aborted
           /\ \A i \in Slots :
                  IF c_case[i] = NoObj THEN c_out.ld.ps.stations[i] = NoObj
                  ELSE /\ c_out.ld.ps.stations[i] # NoObj
                       /\ PlainFields(c_out.ld.ps.stations[i]) = PlainFields(c_case[i])
                       /\ c_case[i].kind = "Waypoint"
                              => c_out.ld.ps.stations[i].town_cn = c_case[i].town_cn

\* A buoy waypoint and a station with a dock were saved side by side and
\* loaded: the first bytes are not their facilities.
C25_Witness ==
    /\ c_pc = "loaded"
    /\ c_case[0] # NoObj /\ c_case[0].kind = "Waypoint"
    /\ c_case[0].facilities = FACIL_WAYPOINT + FACIL_DOCK
    /\ c_case[1] # NoObj /\ c_case[1].kind = "Station"
    /\ c_case[1].facilities = FACIL_TRAIN + FACIL_DOCK
    /\ c_out.elems[1][1] = FACIL_WAYPOINT
    /\ c_out.elems[2][1] = FACIL_NONE
    /\ c_out.ld.ps.stations[0].kind = "Waypoint"
    /\ c_out.ld.ps.stations[1].kind = "Station"

(***************************************************************************)
(* The flow tuples of a goods entry as a file may hold them, in any order  *)
(* of their sources, read by Load_STNN.                                    *)
(***************************************************************************)

\* The tuples of the probe and how many a goods entry has at most.
TupleSources == {0, 1, INVALID_STATION}
TupleShares == {5, 10}
MaxTuples == 3

FlowTupleSet ==
    [source : TupleSources, via : {3}, share : TupleShares, restricted : {FALSE}]

\* The element of a station whose first goods entry has these tuples.
TupleElem(tuples) ==
    LET g == [InitGlobals EXCEPT !._num_flows = Len(tuples)]
    IN  WriteObject([NewStation EXCEPT !.xy = 80], InitGlobals, _station_desc,
                    CurrentVersion)
        \o WriteObject(NewGoodsEntry, g, GetGoodsDesc, CurrentVersion)
        \o Concat([k \in 1..Len(tuples) |->
                      WriteObject(tuples[k], g, _flow_desc, CurrentVersion)], Len(tuples))
        \o Concat([c \in 1..(NUM_CARGO - 1) |->
                      WriteObject(NewGoodsEntry, InitGlobals, GetGoodsDesc,
                                  CurrentVersion)], NUM_CARGO - 1)

TupleInit ==
    /\ ValidIdle /\ LoadIdle
    /\ c_case \in UNION {[1..n -> FlowTupleSet] : n \in 1..MaxTuples}
    /\ c_out = <<>>
    /\ c_pc = "start"

Tuple_Load_STNN ==
    /\ c_pc = "start"
    /\ c_out' = Load_STNN(Loader(EmptyPools, InitGlobals), <<TupleElem(c_case)>>,
                          CurrentVersion)
    /\ c_pc' = "loaded"
    /\ UNCHANGED c_case
    /\ ProbeFrame

TupleNext == Tuple_Load_STNN

SpecTuple == TupleInit /\ [][TupleNext]_vars

\* The flow map read for the goods entry.
TupleFlows == c_out.ps.stations[0].goods[1].flows

\* The tuples of every source are next to one another.
SourcesAdjacent(tuples) ==
    \A i, j \in 1..Len(tuples) :
        i < j /\ tuples[i].source = tuples[j].source
            => \A k \in i..j : tuples[k].source = tuples[i].source

\* The shares read add up, for every source, to the largest key of its
\* FlowStat.
SharesAccumulated(tuples, flows) ==
    \A n \in 1..Len(tuples) :
        /\ MapHas(flows, tuples[n].source)
        /\ SumShares(tuples, tuples[n].source, Len(tuples))
               = MapGet(flows, tuples[n].source)
                     .shares[Len(MapGet(flows, tuples[n].source).shares)].key

\* C26: whatever tuples Load_STNN reads for a goods entry, the first starts
\* a FlowStat, also for the source INVALID_STATION, a tuple of the source of
\* the one before it is appended to that FlowStat, and for every source the
\* shares read add up to the largest cumulative key of its FlowStat, also
\* when the tuples of a source are not next to one another.
C26_SharesAccumulated ==
    c_pc = "loaded" =>
        /\ c_out.ok /\ ~c_out.aborted
        /\ MapHas(TupleFlows, c_case[1].source)
        /\ MapGet(TupleFlows, c_case[1].source).shares[1]
               = [key |-> c_case[1].share, val |-> c_case[1].via]
        /\ SharesAccumulated(c_case, TupleFlows)

\* With the tuples of every source next to one another, as Save_STNN
\* writes them, the shares do add up.
AdjacentSharesAccumulated ==
    c_pc = "loaded" /\ SourcesAdjacent(c_case) =>
        /\ c_out.ok /\ ~c_out.aborted
        /\ SharesAccumulated(c_case, TupleFlows)

\* The waypoint that MoveBuoysToWaypoints makes of a station keeps what the
\* station had.
CarriedOver(st, wp, tiles) ==
    LET train == st.train_station_tile # INVALID_TILE
    IN  /\ wp # NoObj
        /\ wp.kind = "Waypoint"
        /\ wp.xy = st.xy
        /\ wp.town = st.town
        /\ wp.name = st.name
        /\ wp.build_date = st.build_date
        /\ wp.delete_ctr = 0
        /\ wp.string_id = (IF train THEN STR_SV_STNAME_WAYPOINT ELSE STR_SV_STNAME_BUOY)
        /\ wp.owner = (IF train THEN tiles[st.xy].owner ELSE OWNER_NONE)

\* The station at an index is flagged HVOT_WAYPOINT before the run.
IsFlagged(index) ==
    /\ c_case.stations[index] # NoObj
    /\ c_case.stations[index].kind = "Station"
    /\ HasHvotWaypoint(c_case.stations[index])

(***************************************************************************)
(* C27: MoveBuoysToWaypoints replaces every station flagged HVOT_WAYPOINT  *)
(* by a waypoint at the same pool index: the allocation assertion never    *)
(* fails, tile, town, custom name and build date are carried over,         *)
(* delete_ctr is 0, string_id is the waypoint name for a station with a    *)
(* train part and the buoy name otherwise, the owner is the owner of the   *)
(* tile (train) or nobody; the other pool slots are left unchanged.        *)
(***************************************************************************)
C27_BuoyBecomesWaypoint ==
    c_pc \in {"moved", "again"} =>
        /\ ~c_out.once.asserted
        /\ \A index \in DOMAIN c_case.stations :
               IF IsFlagged(index)
               THEN CarriedOver(c_case.stations[index], c_out.once.stations[index],
                                c_case.tiles)
               ELSE c_out.once.stations[index] = c_case.stations[index]

C27_Witness ==
    /\ c_pc = "moved"
    /\ IsFlagged(0) /\ IsFlagged(1)
    /\ c_case.stations[0].train_station_tile = INVALID_TILE
    /\ c_case.stations[0].name = <<66>>
    /\ c_case.stations[1].train_station_tile = 2
    /\ c_case.stations[1].delete_ctr # 0
    /\ c_out.once.stations[0].string_id = STR_SV_STNAME_BUOY
    /\ c_out.once.stations[0].owner = OWNER_NONE
    /\ c_out.once.stations[0].name = <<66>>
    /\ c_out.once.stations[1].string_id = STR_SV_STNAME_WAYPOINT
    /\ c_out.once.stations[1].owner = 3
    /\ c_out.once.stations[1].town = Ptr("towns", 1)
    /\ c_out.once.stations[1].delete_ctr = 0

(***************************************************************************)
(* MoveBuoysToWaypoints step by step: one step per order list, per vehicle *)
(* and per pool slot, with the destinations that UpdateWaypointOrder looks *)
(* up on the way.                                                          *)
(***************************************************************************)

\* The loops of MoveBuoysToWaypoints in a wrong order: the stations first.
Loops_stations_first == <<"stations", "orderlists", "vehicles", "done">>

\* The loops of MoveBuoysToWaypoints in the order of the code.
Loops == <<"orderlists", "vehicles", "stations", "done">>

\* The pool slot holds a live station.
IsLiveStation(stations, dest) ==
    /\ dest \in DOMAIN stations
    /\ stations[dest] # NoObj
    /\ stations[dest].kind = "Station"

\* Station::Get(o->GetDestination()) in UpdateWaypointOrder: what the slot
\* holds when it is looked up.
Lookups(orders, stations) ==
    {[dest |-> o.dest,
      live |-> IsLiveStation(stations, o.dest),
      same |-> o.dest \in DOMAIN stations /\ stations[o.dest] = c_case.stations[o.dest]] :
        o \in {x \in orders : x.type = "OT_GOTO_STATION"}}

\* What UpdateWaypointOrder can make of an order: Station::Get of a slot
\* that holds no station reads whatever is there.
OrderOutcomes(o, stations) ==
    IF o.type = "OT_GOTO_STATION" /\ ~IsLiveStation(stations, o.dest)
    THEN {o, [o EXCEPT !.type = "OT_GOTO_WAYPOINT"]}
    ELSE {UpdateWaypointOrder(o, stations)}

\* The step of a loop that has gone through all its items.
LoopEnds(k) ==
    /\ c_out' = [c_out EXCEPT !.loop = k + 1, !.at = 1]
    /\ c_pc' = Loops[k + 1]

StepInit ==
    /\ ValidIdle
    /\ LoadIdle
    /\ \E w \in BuoyWorlds :
           /\ \A o \in AllOrders(w) : DestinationIsStation(o, w.stations)
           /\ c_case = w
    /\ c_out = [w |-> c_case, loop |-> 1, at |-> 1, looked |-> {}]
    /\ c_pc = Loops[1]

\* Lines 153-159: FOR_ALL_ORDER_LISTS, one list.
Step_OrderList ==
    /\ c_pc = "orderlists"
    /\ IF c_out.at \notin DOMAIN c_out.w.orderlists THEN LoopEnds(c_out.loop)
       ELSE LET ol == c_out.w.orderlists[c_out.at] IN
            /\ c_pc' = c_pc
            /\ IF ol.vt \notin {"VEH_SHIP", "VEH_TRAIN"}
               THEN c_out' = [c_out EXCEPT !.at = @ + 1]
               ELSE \E new \in [DOMAIN ol.orders -> AllOrders(c_out.w) \cup
                                    {MakeOrder("OT_GOTO_WAYPOINT", d) : d \in Slots}] :
                        /\ \A k \in DOMAIN ol.orders :
                               new[k] \in OrderOutcomes(ol.orders[k], c_out.w.stations)
                        /\ c_out' = [c_out EXCEPT
                               !.at = @ + 1,
                               !.w.orderlists[c_out.at].orders = new,
                               !.looked = @ \cup Lookups(Range(ol.orders), c_out.w.stations)]
    /\ UNCHANGED c_case

\* Lines 161-167: FOR_ALL_VEHICLES, one vehicle.
Step_Vehicle ==
    /\ c_pc = "vehicles"
    /\ IF c_out.at \notin DOMAIN c_out.w.vehicles THEN LoopEnds(c_out.loop)
       ELSE LET v == c_out.w.vehicles[c_out.at] IN
            /\ c_pc' = c_pc
            /\ IF v.type \notin {"VEH_SHIP", "VEH_TRAIN"}
               THEN c_out' = [c_out EXCEPT !.at = @ + 1]
               ELSE \E new \in OrderOutcomes(v.current_order, c_out.w.stations) :
                        c_out' = [c_out EXCEPT
                            !.at = @ + 1,
                            !.w.vehicles[c_out.at].current_order = new,
                            !.looked = @ \cup Lookups({v.current_order}, c_out.w.stations)]
    /\ UNCHANGED c_case

\* Lines 169-216: FOR_ALL_STATIONS, one pool slot.
Step_Station ==
    /\ c_pc = "stations"
    /\ LET index == c_out.at - 1 IN
       IF index \notin DOMAIN c_out.w.stations THEN LoopEnds(c_out.loop)
       ELSE /\ c_pc' = c_pc
            /\ c_out' = [c_out EXCEPT
                   !.at = @ + 1,
                   !.w = IF IsLiveStation(@.stations, index)
                            /\ HasHvotWaypoint(@.stations[index])
                         THEN ConvertBuoy(@, index) ELSE @]
    /\ UNCHANGED c_case

StepNext ==
    \/ (Step_OrderList /\ ProbeFrame)
    \/ (Step_Vehicle /\ ProbeFrame)
    \/ (Step_Station /\ ProbeFrame)

SpecStep == StepInit /\ [][StepNext]_vars

\* What the code makes of an order of a ship or a train.
Rewritten(o) ==
    IF o.type = "OT_GOTO_STATION" /\ IsFlagged(o.dest)
    THEN MakeOrder("OT_GOTO_WAYPOINT", o.dest) ELSE o

\* The steps end in the world that MoveBuoysToWaypoints returns.
StepsAgree == c_pc = "done" => c_out.w = MoveBuoysToWaypoints(c_case)

(***************************************************************************)
(* C28: MoveBuoysToWaypoints rewrites the orders before it converts any    *)
(* station: whenever UpdateWaypointOrder looks up the destination of a     *)
(* go-to-station order of a ship or train, the pool slot holds a live      *)
(* station, the one of the load, neither destroyed nor rebuilt as a        *)
(* waypoint; such an order becomes a go-to-waypoint order with the same    *)
(* destination iff that station is flagged HVOT_WAYPOINT, and orders of    *)
(* other types stay as they are.                                           *)
(***************************************************************************)
C28_OrdersBeforeStations ==
    /\ \A x \in c_out.looked : x.live /\ x.same
    /\ c_pc = "done" =>
           /\ \A l \in DOMAIN c_case.orderlists :
                  c_case.orderlists[l].vt \in {"VEH_SHIP", "VEH_TRAIN"} =>
                      c_out.w.orderlists[l].orders =
                          [k \in DOMAIN c_case.orderlists[l].orders |->
                              Rewritten(c_case.orderlists[l].orders[k])]
           /\ \A v \in DOMAIN c_case.vehicles :
                  c_case.vehicles[v].type \in {"VEH_SHIP", "VEH_TRAIN"} =>
                      c_out.w.vehicles[v].current_order =
                          Rewritten(c_case.vehicles[v].current_order)

C28_Witness ==
    /\ c_pc = "done"
    /\ c_case.orderlists[1].vt = "VEH_TRAIN"
    /\ IsFlagged(0) /\ ~IsFlagged(1)
    /\ c_case.orderlists[1].orders = <<MakeOrder("OT_GOTO_STATION", 1),
                                       MakeOrder("OT_GOTO_STATION", 0)>>
    /\ c_case.vehicles[1].current_order = MakeOrder("OT_NOTHING", 0)
    /\ c_out.looked = {[dest |-> 0, live |-> TRUE, same |-> TRUE],
                       [dest |-> 1, live |-> TRUE, same |-> TRUE]}
    /\ c_out.w.stations[0].kind = "Waypoint"
    /\ c_out.w.orderlists[1].orders = <<MakeOrder("OT_GOTO_STATION", 1),
                                        MakeOrder("OT_GOTO_WAYPOINT", 0)>>
    /\ c_out.w.vehicles[1].current_order = MakeOrder("OT_NOTHING", 0)

(***************************************************************************)
(* Load_STNS on the files before legacy version 68, whose goods entries    *)
(* hold one amount of waiting cargo instead of packets, in a program built *)
(* with more cargoes than the twelve of the files before version 55.       *)
(***************************************************************************)

\* NUM_CARGO of the program of this probe.
WideCargo == 13

\* The legacy versions on both sides of every row of GetGoodsDesc that the
\* old packets depend on.
WaitingVersions ==
    {[type |-> "SGT_OTTD", version |-> v, minor_version |-> 0] :
        v \in {6, 7, 13, 14, 43, 44, 54, 55, 67, 68}}

\* Stored waiting/acceptance words: nothing, an amount, a bit above the
\* amount, the acceptance alone and with an amount.
WaitingWords == {0, 5, 4096, 32768, 32768 + 7}

\* The word of a goods entry of a case: the first and the twelfth entry are
\* those of the case, the last one is accepted, the others are empty.
SlotWord(case, i) ==
    IF i = 1 THEN case.wa
    ELSE IF i = OLD_NUM_CARGO THEN case.last
    ELSE IF i = WideCargo THEN 32768 ELSE 0

\* The staging variables a goods entry of a case is written from.
SlotGlobals(case, i) ==
    [InitGlobals EXCEPT !._waiting_acceptance = SlotWord(case, i),
                        !._cargo_source = case.source, !._cargo_source_xy = 77,
                        !._cargo_days = 2, !._cargo_feeder_share = 9]

\* The goods entries that a file of the version has for a station.
SlotsInFile(stv) == IF IsOTTDVersionBefore(stv, 55) THEN OLD_NUM_CARGO ELSE WideCargo

\* The element of the station of a case.
WaitingElem(case) ==
    WriteObject([StationOf(WideCargo) EXCEPT !.xy = 40], InitGlobals, _old_station_desc,
                case.stv)
    \o Concat([i \in 1..SlotsInFile(case.stv) |->
                  WriteObject(NewGoodsEntry, SlotGlobals(case, i), GetGoodsDesc, case.stv)],
              SlotsInFile(case.stv))

\* The staging variables as an earlier load has left them.
UsedGlobals ==
    [InitGlobals EXCEPT !._cargo_source_xy = 99, !._cargo_days = 9,
                        !._cargo_feeder_share = 99, !._waiting_acceptance = 5]

WaitingInit ==
    /\ ValidIdle /\ LoadIdle
    /\ c_case \in [stv : WaitingVersions, wa : WaitingWords, last : WaitingWords,
                   source : {3, 255}]
    /\ c_out = <<>>
    /\ c_pc = "start"

Waiting_Load_STNS ==
    /\ c_pc = "start"
    /\ c_out' = Load_STNS(Loader(EmptyPools, UsedGlobals), <<WaitingElem(c_case)>>,
                          c_case.stv, WideCargo)
    /\ c_pc' = "loaded"
    /\ UNCHANGED c_case
    /\ ProbeFrame

WaitingNext == Waiting_Load_STNS

SpecWaiting == WaitingInit /\ [][WaitingNext]_vars

\* The packet that the claim gives a goods entry with this word.
ExpectedPacket(case, word) ==
    NewCargoPacket(word % 4096, 2,
                   IF case.stv.version < 7 /\ case.source = 255
                   THEN INVALID_STATION ELSE case.source,
                   IF case.stv.version >= 44 THEN 77 ELSE 0,
                   IF case.stv.version >= 44 THEN 77 ELSE 0,
                   IF case.stv.version >= 14 THEN 9 ELSE 0)

\* The status that the claim gives a goods entry with this word.
ExpectedStatus(word) ==
    (IF word >= 32768 THEN 2 ^ GES_ACCEPTANCE ELSE 0)
    + (IF word % 4096 # 0 THEN 2 ^ GES_RATING ELSE 0)

\* The goods entry is as the claim says for its word.
GoodsAsStored(case, ld, ge, word) ==
    IF case.stv.version >= 68
    THEN ge.cargo_packets = <<>> /\ ge.status = 0
    ELSE /\ ge.status = ExpectedStatus(word)
         /\ IF word % 4096 = 0 THEN ge.cargo_packets = <<>>
            ELSE /\ Len(ge.cargo_packets) = 1
                 /\ Len(NoDestination(ge)) = 1
                 /\ NoDestination(ge)[1].k = "ptr"
                 /\ ld.ps.cargopackets[NoDestination(ge)[1].idx]
                        = ExpectedPacket(case, word)

\* The packets that the load has made.
PacketsMade(ld) == {i \in DOMAIN ld.ps.cargopackets : ld.ps.cargopackets[i] # NoObj}

(***************************************************************************)
(* C29: from a legacy file before version 68 Load_STNS gives each goods    *)
(* entry the acceptance of bit 15 of the stored word and, iff the low 12   *)
(* bits are not 0, one new packet of that amount without destination and   *)
(* the rating bit; the source of the packet is INVALID_STATION iff the     *)
(* file is before version 7 and stores 0xFF, and source tile and feeder    *)
(* share are 0 in the versions without the field.  From version 68 on no   *)
(* packet is made, and before version 55 twelve goods entries are read for *)
(* a station.                                                              *)
(***************************************************************************)
C29_OldWaitingCargo ==
    c_pc = "loaded" =>
        /\ c_out.ok /\ ~c_out.aborted
        /\ c_out.ps.stations[0] # NoObj
        /\ \A i \in 1..WideCargo :
               IF i <= SlotsInFile(c_case.stv)
               THEN GoodsAsStored(c_case, c_out, c_out.ps.stations[0].goods[i],
                                  SlotWord(c_case, i))
               ELSE c_out.ps.stations[0].goods[i] = NewGoodsEntry
        /\ Cardinality(PacketsMade(c_out))
               = IF c_case.stv.version >= 68 THEN 0
                 ELSE Cardinality({i \in 1..SlotsInFile(c_case.stv) :
                                      SlotWord(c_case, i) % 4096 # 0})

C29_Witness ==
    /\ c_pc = "loaded"
    /\ c_case.stv.version = 6
    /\ c_case.wa = 32768 + 7
    /\ c_case.last = 5
    /\ c_case.source = 255
    /\ c_out.ps.stations[0].goods[1].status = 3
    /\ c_out.ps.stations[0].goods[OLD_NUM_CARGO].status = 2
    /\ c_out.ps.stations[0].goods[WideCargo] = NewGoodsEntry
    /\ c_out.ps.cargopackets[0] = NewCargoPacket(7, 2, INVALID_STATION, 0, 0, 0)
    /\ c_out.ps.cargopackets[1] = NewCargoPacket(5, 2, INVALID_STATION, 0, 0, 0)

====
